---- MODULE Spec2Model ----
(***************************************************************************)
(* A model of buffalo, a header-only SLR(1) parser generator               *)
(* (include/buffalo/buffalo.h, first revision in the file, lines 1-1166):  *)
(* Grammar construction (RegisterSymbols, GenerateFirstSet,                *)
(* GenerateFollowSet), SLRParser::BuildParsingTables and SLRParser::Parse  *)
(* with its state-aware Tokenizer.                                         *)
(***************************************************************************)
EXTENDS Integers, Sequences, FiniteSets, TLC

VARIABLES
    def,               \* the user's terminal / non-terminal objects (the grammar as written)
    layout,            \* address order of the terminal and non-terminal objects
    pc,                \* position in construction / build / parse
    counter,           \* Terminal<G>::counter
    EOS,               \* Grammar::EOS (the terminal created by the Grammar constructor)
    rules_,            \* fields Grammar writes into the rules stored in the non-terminals
    nonterminals_,     \* Grammar::nonterminals_
    terminals_,        \* Grammar::terminals_
    production_rules_, \* Grammar::production_rules_
    first_,            \* Grammar::first_
    follow_,           \* Grammar::follow_
    has_change,        \* the loop flag of GenerateFirstSet / GenerateFollowSet
    states,            \* BuildParsingTables: std::vector<LRState<G>> states
    fsm,               \* BuildParsingTables: the local map fsm[i][symbol]
    build,             \* BuildParsingTables: loop index i and the (item, lookahead) pairs left in state i
    action_,           \* SLRParser::action_
    goto_,             \* SLRParser::goto_
    error,             \* the error BuildParsingTables returns ("" for std::nullopt)
    parse,             \* the Parse calls in flight: tokenizer, parse_stack, token sink, result
    race,              \* a Parse call wrote to the parser while another call was running
    previous           \* the outcome of an earlier SLRParser::Build from the same start

gvars == <<def, layout, pc, counter, EOS, rules_, nonterminals_, terminals_,
           production_rules_, first_, follow_, has_change, previous>>
gvars_but_pc == <<def, layout, counter, EOS, rules_, nonterminals_, terminals_,
                  production_rules_, first_, follow_, has_change, previous>>
bvars == <<states, fsm, build, action_, goto_, error>>
pvars == <<parse, race>>
vars == <<gvars, bvars, pvars>>

-----------------------------------------------------------------------------
(* Bounds of the generated grammar family *)
MaxGrammarSize == 4
MaxRuleLen == 2
MaxRules == 2

(* std::size_t precedence = -1: the largest value of the integer type *)
SizeMax == 2147483647

-----------------------------------------------------------------------------
(* Symbol<G> = std::variant<Terminal<G>*, NonTerminal<G>*> *)
T(n) == <<"T", n>>
N(n) == <<"N", n>>
IsTerminal(s) == s[1] = "T"
NameOf(s) == s[2]

EOSName == "$"

Min(a, b) == IF a < b THEN a ELSE b

RECURSIVE SeqToSet(_)
SeqToSet(s) == IF s = <<>> THEN {} ELSE {Head(s)} \cup SeqToSet(Tail(s))

(* position of x in the sequence s (0 when absent) *)
RECURSIVE IndexOf(_, _)
IndexOf(s, x) ==
    IF s = <<>> THEN 0
    ELSE IF Head(s) = x THEN 1
    ELSE LET r == IndexOf(Tail(s), x) IN IF r = 0 THEN 0 ELSE r + 1

(* std::map::operator[] on a map of sets: a missing key reads as the empty set *)
Get(m, k) == IF k \in DOMAIN m THEN m[k] ELSE {}
Put(m, k, v) == [x \in DOMAIN m \cup {k} |-> IF x = k THEN v ELSE m[x]]

-----------------------------------------------------------------------------
(* The generated family: non-terminals S and A over terminals a and b. *)
FamSymbols == {T("a"), T("b"), N("S"), N("A")}

RECURSIVE BodiesOfLen(_)
BodiesOfLen(n) ==
    IF n = 0 THEN {<<>>}
    ELSE {<<x>> \o b : x \in FamSymbols, b \in BodiesOfLen(n - 1)}

(* rule lists of at most r rules holding s symbols in all *)
RECURSIVE RuleLists(_, _)
RuleLists(s, r) ==
    IF s = 0 THEN {<<>>}
    ELSE IF r = 0 THEN {}
    ELSE UNION { {<<b>> \o rest : b \in BodiesOfLen(n), rest \in RuleLists(s - n, r - 1)}
                 : n \in 1..Min(s, MaxRuleLen) }

NoneAssoc(terms) == [t \in SeqToSet(terms) |-> "None"]
CharPattern(terms) == [t \in SeqToSet(terms) |-> [kind |-> "char", c |-> t]]
NoReasoner(terms) == [t \in SeqToSet(terms) |-> "none"]

FamGrammar(rs, ra) ==
    [ nts |-> <<"S", "A">>,
      terms |-> <<"a", "b">>,
      rules |-> [n \in {"S", "A"} |-> IF n = "S" THEN rs ELSE ra],
      transductor |-> [n \in {"S", "A"} |->
                          [k \in 1..Len(IF n = "S" THEN rs ELSE ra) |-> "none"]],
      start |-> "S",
      assoc |-> NoneAssoc(<<"a", "b">>),
      pattern |-> CharPattern(<<"a", "b">>),
      reasoner |-> NoReasoner(<<"a", "b">>),
      value_type |-> "class",
      tests |-> {},
      alphabet |-> {"a", "b", " ", "?"},
      operators |-> {},
      name |-> "family" ]

-----------------------------------------------------------------------------
(* Terminal<G>::precedence = Terminal::counter++ : definition order *)
DeclPrecedence(d, t) == IndexOf(d.terms, t) - 1

(* Precedence with the definition order of the terminals reversed *)
PrecedenceReversed(d, eos, t) ==
    IF t = EOSName THEN eos.precedence ELSE Len(d.terms) - 1 - DeclPrecedence(d, t)

(* terminal->precedence *)
Precedence(d, eos, t) == IF t = EOSName THEN eos.precedence ELSE DeclPrecedence(d, t)

Associativity(d, eos, t) == IF t = EOSName THEN eos.associativity ELSE d.assoc[t]

RuleIds(d) == UNION {{<<n, k>> : k \in 1..Len(d.rules[n])} : n \in SeqToSet(d.nts)}

Sequence(d, id) == d.rules[id[1]][id[2]]

(* ProductionRule fields as constructed: precedence = -1, non_terminal_ = nullptr *)
InitRules(d) == [id \in RuleIds(d) |-> [precedence |-> SizeMax, non_terminal_ |-> ""]]

-----------------------------------------------------------------------------
(* Grammar::RegisterSymbols.  g is the record of the Grammar fields it writes. *)
RECURSIVE RegisterSymbols(_, _, _), RegisterRules(_, _, _, _), RegisterSequence(_, _, _, _, _)

(* RegisterSequence descending only into a non-terminal that opens the rule *)
(* RegisterSequence remembering the first terminal of the rule, not the last *)
RECURSIVE RegisterSequenceFirstTerminal(_, _, _, _, _)
RegisterSequenceFirstTerminal(d, g, id, i, last) ==
    IF i > Len(Sequence(d, id)) THEN [g |-> g, last |-> last]
    ELSE LET symbol == Sequence(d, id)[i] IN
         IF IsTerminal(symbol)
         THEN RegisterSequenceFirstTerminal(d, [g EXCEPT !.terminals = @ \cup {NameOf(symbol)}],
                                            id, i + 1,
                                            IF last = "" THEN NameOf(symbol) ELSE last)
         ELSE IF NameOf(symbol) \in g.nonterminals
              THEN RegisterSequenceFirstTerminal(d, g, id, i + 1, last)
              ELSE RegisterSequenceFirstTerminal(d, RegisterSymbols(d, g, NameOf(symbol)),
                                                 id, i + 1, last)

RECURSIVE RegisterSequenceFirstOnly(_, _, _, _, _)
RegisterSequenceFirstOnly(d, g, id, i, last) ==
    IF i > Len(Sequence(d, id)) THEN [g |-> g, last |-> last]
    ELSE LET symbol == Sequence(d, id)[i] IN
         IF IsTerminal(symbol)
         THEN RegisterSequenceFirstOnly(d, [g EXCEPT !.terminals = @ \cup {NameOf(symbol)}],
                                        id, i + 1, NameOf(symbol))
         ELSE IF NameOf(symbol) \in g.nonterminals \/ i > 1
              THEN RegisterSequenceFirstOnly(d, g, id, i + 1, last)
              ELSE RegisterSequenceFirstOnly(d, RegisterSymbols(d, g, NameOf(symbol)),
                                             id, i + 1, last)

(* the loop over rule.sequence_ of rule k of nt, from position i on;
   last is last_terminal ("" for nullptr) *)
RegisterSequence(d, g, id, i, last) ==
    IF i > Len(Sequence(d, id)) THEN [g |-> g, last |-> last]
    ELSE LET symbol == Sequence(d, id)[i] IN
         IF IsTerminal(symbol)
         THEN RegisterSequence(d, [g EXCEPT !.terminals = @ \cup {NameOf(symbol)}],
                               id, i + 1, NameOf(symbol))
         ELSE IF NameOf(symbol) \in g.nonterminals
              THEN RegisterSequence(d, g, id, i + 1, last)
              ELSE RegisterSequence(d, RegisterSymbols(d, g, NameOf(symbol)), id, i + 1, last)

(* the loop over nonterminal->rules_ from rule k on *)
RegisterRules(d, g, nt, k) ==
    IF k > Len(d.rules[nt]) THEN g
    ELSE LET id == <<nt, k>>
             g1 == [g EXCEPT !.rules[id].non_terminal_ = nt]
             \* push_back copies the rule as it is now
             g2 == [g1 EXCEPT !.production_rules =
                       Append(@, [nonterminal |-> nt,
                                  rule |-> [id |-> id,
                                            sequence_ |-> Sequence(d, id),
                                            precedence |-> g1.rules[id].precedence,
                                            non_terminal_ |-> nt]])]
             r == RegisterSequence(d, g2, id, 1, "")
             g3 == IF r.last # ""
                   THEN [r.g EXCEPT !.rules[id].precedence = Precedence(d, g.EOS, r.last)]
                   ELSE r.g
         IN RegisterRules(d, g3, nt, k + 1)

RegisterSymbols(d, g, nonterminal) ==
    RegisterRules(d, [g EXCEPT !.nonterminals = @ \cup {nonterminal}], nonterminal, 1)

-----------------------------------------------------------------------------
(* FirstStep with the loop flag assigned instead of accumulated in the
   non-terminal case *)
FirstStepAssign(st, nonterminal, rule) ==
    IF rule.sequence_ = <<>> THEN st
    ELSE LET symbol == rule.sequence_[1] IN
         IF IsTerminal(symbol)
         THEN [first |-> Put(st.first, nonterminal,
                             Get(st.first, nonterminal) \cup {NameOf(symbol)}),
               has_change |-> st.has_change \/ (NameOf(symbol) \notin Get(st.first, nonterminal))]
         ELSE IF NameOf(symbol) = nonterminal
              THEN st
              ELSE LET parent_first == Get(st.first, nonterminal) \cup Get(st.first, NameOf(symbol))
                   IN [first |-> Put(st.first, nonterminal, parent_first),
                       has_change |-> (parent_first # Get(st.first, nonterminal))]

(* One iteration of the for loop of GenerateFirstSet: st = [first, has_change] *)
FirstStep(st, nonterminal, rule) ==
    IF rule.sequence_ = <<>> THEN st
    ELSE LET symbol == rule.sequence_[1] IN
         IF IsTerminal(symbol)
         THEN LET inserted == NameOf(symbol) \notin Get(st.first, nonterminal)
              IN [first |-> Put(st.first, nonterminal,
                                Get(st.first, nonterminal) \cup {NameOf(symbol)}),
                  has_change |-> st.has_change \/ inserted]
         ELSE IF NameOf(symbol) = nonterminal
              THEN st
              ELSE LET f1 == Put(st.first, nonterminal, Get(st.first, nonterminal))
                       f2 == Put(f1, NameOf(symbol), Get(f1, NameOf(symbol)))
                       parent_first == f2[nonterminal] \cup f2[NameOf(symbol)]
                   IN [first |-> Put(f2, nonterminal, parent_first),
                       has_change |-> st.has_change \/ (parent_first # f2[nonterminal])]

(* One pass of the do-while body of GenerateFirstSet over production_rules_ *)
RECURSIVE FirstPass(_, _, _)
FirstPass(st, prods, k) ==
    IF k > Len(prods) THEN st
    ELSE FirstPass(FirstStep(st, prods[k].nonterminal, prods[k].rule), prods, k + 1)

-----------------------------------------------------------------------------
(* FollowStep reporting a change whenever the child's FOLLOW set is not
   empty, instead of whenever it grew *)
FollowStepNonEmpty(st, first, nonterminal, rule, i) ==
    LET sym == rule.sequence_[i] IN
    IF IsTerminal(sym) THEN st
    ELSE LET symbol == NameOf(sym) IN
         IF i = Len(rule.sequence_)
         THEN LET f1 == Put(st.follow, nonterminal, Get(st.follow, nonterminal))
                  f2 == Put(f1, symbol, Get(f1, symbol))
                  child_follow == f2[symbol] \cup f2[nonterminal]
              IN [follow |-> Put(f2, symbol, child_follow),
                  has_change |-> (child_follow # {})]
         ELSE LET follow == rule.sequence_[i + 1] IN
              IF IsTerminal(follow)
              THEN LET inserted == NameOf(follow) \notin Get(st.follow, symbol)
                   IN [follow |-> Put(st.follow, symbol,
                                      Get(st.follow, symbol) \cup {NameOf(follow)}),
                       has_change |-> st.has_change \/ inserted]
              ELSE LET symbol_follow == Get(st.follow, symbol) \cup Get(first, NameOf(follow))
                   IN [follow |-> Put(st.follow, symbol, symbol_follow),
                       has_change |-> st.has_change \/ (symbol_follow # Get(st.follow, symbol))]

(* The body of the inner for loop of GenerateFollowSet at position i of rule:
   st = [follow, has_change]; first is first_ (only read, entries created by
   operator[] are empty and do not matter to any reader of this model) *)
FollowStep(st, first, nonterminal, rule, i) ==
    LET sym == rule.sequence_[i] IN
    IF IsTerminal(sym) THEN st
    ELSE LET symbol == NameOf(sym) IN
         IF i = Len(rule.sequence_)
         THEN LET f1 == Put(st.follow, nonterminal, Get(st.follow, nonterminal))
                  f2 == Put(f1, symbol, Get(f1, symbol))
                  child_follow == f2[symbol] \cup f2[nonterminal]
              IN [follow |-> Put(f2, symbol, child_follow),
                  \* has_change = child_size != child_follow.size();
                  has_change |-> (child_follow # f2[symbol])]
         ELSE LET follow == rule.sequence_[i + 1] IN
              IF IsTerminal(follow)
              THEN LET inserted == NameOf(follow) \notin Get(st.follow, symbol)
                   IN [follow |-> Put(st.follow, symbol,
                                      Get(st.follow, symbol) \cup {NameOf(follow)}),
                       has_change |-> st.has_change \/ inserted]
              ELSE LET symbol_follow == Get(st.follow, symbol) \cup Get(first, NameOf(follow))
                   IN [follow |-> Put(st.follow, symbol, symbol_follow),
                       has_change |-> st.has_change \/ (symbol_follow # Get(st.follow, symbol))]

RECURSIVE FollowRule(_, _, _, _, _)
FollowRule(st, first, nonterminal, rule, i) ==
    IF i > Len(rule.sequence_) THEN st
    ELSE FollowRule(FollowStep(st, first, nonterminal, rule, i), first, nonterminal, rule, i + 1)

(* One pass of the do-while body of GenerateFollowSet over production_rules_ *)
RECURSIVE FollowPass(_, _, _, _)
FollowPass(st, first, prods, k) ==
    IF k > Len(prods) THEN st
    ELSE FollowPass(FollowRule(st, first, prods[k].nonterminal, prods[k].rule, 1),
                    first, prods, k + 1)

-----------------------------------------------------------------------------
(* Actions of Grammar::Grammar *)

(* EOS = make_unique<DefineTerminal>(); terminals_.insert(EOS); RegisterSymbols(&start) *)
GrammarCtor ==
    /\ pc = "new"
    /\ LET eos == [precedence |-> counter, associativity |-> "None"]
           g == RegisterSymbols(def,
                    [nonterminals |-> {}, terminals |-> {EOSName}, production_rules |-> <<>>,
                     rules |-> rules_, EOS |-> eos],
                    def.start)
       IN /\ EOS' = eos
          /\ counter' = counter + 1
          /\ nonterminals_' = g.nonterminals
          /\ terminals_' = g.terminals
          /\ production_rules_' = g.production_rules
          /\ rules_' = g.rules
    /\ pc' = "first"
    /\ UNCHANGED <<def, layout, first_, follow_, has_change, previous, bvars, pvars>>

(* one iteration of the do-while loop of GenerateFirstSet *)
GenerateFirstSet ==
    /\ pc = "first"
    /\ LET st == FirstPass([first |-> first_, has_change |-> FALSE], production_rules_, 1)
       IN /\ first_' = st.first
          /\ has_change' = st.has_change
          /\ pc' = IF st.has_change THEN "first" ELSE "follow_seed"
    /\ UNCHANGED <<previous, def, layout, counter, EOS, rules_, nonterminals_, terminals_,
                   production_rules_, follow_, bvars, pvars>>

(* this->follow_[&root] = { EOS } *)
GenerateFollowSetSeed ==
    /\ pc = "follow_seed"
    /\ follow_' = Put(follow_, def.start, {EOSName})
    /\ pc' = "follow"
    /\ UNCHANGED <<previous, def, layout, counter, EOS, rules_, nonterminals_, terminals_,
                   production_rules_, first_, has_change, bvars, pvars>>

(* one iteration of the do-while loop of GenerateFollowSet *)
GenerateFollowSet ==
    /\ pc = "follow"
    /\ LET st == FollowPass([follow |-> follow_, has_change |-> FALSE],
                            first_, production_rules_, 1)
       IN /\ follow_' = st.follow
          /\ has_change' = st.has_change
          /\ pc' = IF st.has_change THEN "follow" ELSE "constructed"
    /\ UNCHANGED <<previous, def, layout, counter, EOS, rules_, nonterminals_, terminals_,
                   production_rules_, first_, bvars, pvars>>

DeclOrder(d) == [terminals |-> Append(d.terms, EOSName), nonterminals |-> d.nts]

(* no parser has been built before *)
NoParser == [pc |-> "none", action_ |-> <<>>, goto_ |-> <<>>, error |-> ""]

InitGrammarOf(d, lay) ==
    /\ def = d
    /\ layout = lay
    /\ pc = "new"
    /\ counter = Len(d.terms)
    /\ EOS = [precedence |-> 0, associativity |-> "None"]
    /\ rules_ = InitRules(d)
    /\ nonterminals_ = {}
    /\ terminals_ = {}
    /\ production_rules_ = <<>>
    /\ first_ = <<>>
    /\ follow_ = <<>>
    /\ has_change = FALSE
    /\ states = <<>>
    /\ fsm = <<>>
    /\ build = [i |-> 0, work |-> <<>>]
    /\ action_ = <<>>
    /\ goto_ = <<>>
    /\ error = ""
    /\ race = FALSE
    /\ previous = NoParser

InitGrammar ==
    /\ \E ss \in 1..(MaxGrammarSize - 1) : \E sa \in 1..(MaxGrammarSize - ss) :
          \E rs \in RuleLists(ss, MaxRules) : \E ra \in RuleLists(sa, MaxRules) :
             InitGrammarOf(FamGrammar(rs, ra), DeclOrder(FamGrammar(rs, ra)))
    /\ parse = <<>>

NextGrammar ==
    \/ GrammarCtor
    \/ GenerateFirstSet
    \/ GenerateFollowSetSeed
    \/ GenerateFollowSet

SpecGrammar == InitGrammar /\ [][NextGrammar]_vars

-----------------------------------------------------------------------------
(* LR items: LRItem{rule, position}; rule is the address of a rule stored in a
   non-terminal, named here by <<non-terminal, index>> *)
Item(id, position) == [rule |-> id, position |-> position]

Complete(d, item) == item.position >= Len(Sequence(d, item.rule))

Advance(item) == Item(item.rule, item.position + 1)

NextSymbol(d, item) == Sequence(d, item.rule)[item.position + 1]

(* ProductionRule::operator== : same owner and same sequence *)
RuleEq(d, rules, a, b) ==
    /\ rules[a].non_terminal_ = rules[b].non_terminal_
    /\ Sequence(d, a) = Sequence(d, b)

(* LRItem::operator== *)
ItemEq(d, rules, a, b) == RuleEq(d, rules, a.rule, b.rule) /\ a.position = b.position

(* the items LRState(start) and GenerateClosure create for the rules of nt *)
StartItems(d, nt) == [k \in 1..Len(d.rules[nt]) |-> Item(<<nt, k>>, 0)]

(* LRState::GenerateClosure: the loop from index i (1-based) on *)
RECURSIVE GenerateClosure(_, _, _, _)
GenerateClosure(d, closure, i, closed_nonterminals) ==
    IF i > Len(closure) THEN closure
    ELSE IF Complete(d, closure[i])
         THEN GenerateClosure(d, closure, i + 1, closed_nonterminals)
         ELSE LET symbol == NextSymbol(d, closure[i]) IN
              IF IsTerminal(symbol) \/ NameOf(symbol) \in closed_nonterminals
              THEN GenerateClosure(d, closure, i + 1, closed_nonterminals)
              ELSE GenerateClosure(d, closure \o StartItems(d, NameOf(symbol)), i + 1,
                                   closed_nonterminals \cup {NameOf(symbol)})

(* std::map<Symbol<G>, ...> iterates terminals (variant index 0) before
   non-terminals, each kind by address *)
SymbolOrder(lay) ==
    [k \in 1..Len(lay.terminals) |-> T(lay.terminals[k])]
        \o [k \in 1..Len(lay.nonterminals) |-> N(lay.nonterminals[k])]

(* the kernel GenerateTransitions collects under the key X *)
TransitionKernel(d, closure, X) ==
    LET sel == SelectSeq(closure, LAMBDA it : ~Complete(d, it) /\ NextSymbol(d, it) = X)
    IN [j \in 1..Len(sel) |-> Advance(sel[j])]

(* LRState::GenerateTransitions, as the sequence of (symbol, kernel) pairs
   that iterating the returned map yields *)
GenerateTransitions(d, lay, kernel_items) ==
    LET closure == GenerateClosure(d, kernel_items, 1, {})
        all == [k \in 1..Len(SymbolOrder(lay)) |->
                   [symbol |-> SymbolOrder(lay)[k],
                    kernel_items |-> TransitionKernel(d, closure, SymbolOrder(lay)[k])]]
    IN SelectSeq(all, LAMBDA tr : tr.kernel_items # <<>>)

(* LRState::operator== : same length and pairwise equal items, in order *)
StateEq(d, rules, a, b) ==
    /\ Len(a) = Len(b)
    /\ \A j \in 1..Len(a) : ItemEq(d, rules, a[j], b[j])

(* SLRParser::FindOrInsertLRState: [states, id], ids counted from 0 *)
FindOrInsertLRState(d, rules, state_list, state) ==
    LET found == {j \in 1..Len(state_list) : StateEq(d, rules, state_list[j], state)}
    IN IF found = {}
       THEN [states |-> Append(state_list, state), id |-> Len(state_list)]
       ELSE [states |-> state_list,
             id |-> (CHOOSE j \in found : \A j2 \in found : j <= j2) - 1]

(* LRAction: type plus the union of state and rule *)
NoRule == <<"", 0>>
ShiftAction(j) == [type |-> "kShift", state |-> j, rule |-> NoRule]
ReduceAction(id) == [type |-> "kReduce", state |-> 0, rule |-> id]
AcceptAction == [type |-> "kAccept", state |-> 0, rule |-> NoRule]

(* a row of action_ / goto_; a missing row reads as the empty map *)
Row(tbl, i) == IF i \in DOMAIN tbl THEN tbl[i] ELSE <<>>
SetEntry(tbl, i, k, v) == Put(tbl, i, Put(Row(tbl, i), k, v))
HasEntry(tbl, i, k) == i \in DOMAIN tbl /\ k \in DOMAIN tbl[i]

(* the terminals / non-terminals of a set in address order *)
InAddressOrder(order, set) == SelectSeq(order, LAMBDA x : x \in set)

(* BuildParsingTables, the "Process all transitions" loop of state i:
   st = [states, fsm, action, goto] *)
RECURSIVE ProcessTransitions(_, _, _, _, _, _)
ProcessTransitions(d, rules, st, i, trans, k) ==
    IF k > Len(trans) THEN st
    ELSE LET r == FindOrInsertLRState(d, rules, st.states, trans[k].kernel_items)
             symbol == trans[k].symbol
         IN ProcessTransitions(d, rules,
                [states |-> r.states,
                 fsm |-> SetEntry(st.fsm, i, symbol, r.id),
                 action |-> IF IsTerminal(symbol)
                            THEN SetEntry(st.action, i, NameOf(symbol), ShiftAction(r.id))
                            ELSE st.action,
                 goto |-> IF IsTerminal(symbol)
                          THEN st.goto
                          ELSE SetEntry(st.goto, i, NameOf(symbol), r.id)],
                i, trans, k + 1)

(* the (item, follow_terminal) pairs the "Create REDUCE/ACCEPT entries" loops
   of state i visit, in order *)
RECURSIVE ReduceWork(_, _, _, _, _, _)
ReduceWork(d, lay, rules, follow, kernel_items, k) ==
    IF k > Len(kernel_items) THEN <<>>
    ELSE LET item == kernel_items[k]
             fs == IF Complete(d, item)
                   THEN InAddressOrder(lay.terminals, Get(follow, rules[item.rule].non_terminal_))
                   ELSE <<>>
         IN [j \in 1..Len(fs) |-> [item |-> item, follow_terminal |-> fs[j]]]
               \o ReduceWork(d, lay, rules, follow, kernel_items, k + 1)

(* ReduceEntry with the two precedence comparisons exchanged *)
ReduceEntryFlipped(d, eos, rules, action, i, item, follow_terminal) ==
    LET type == IF HasEntry(action, i, follow_terminal)
                THEN action[i][follow_terminal].type ELSE "kError"
        reduce == SetEntry(action, i, follow_terminal, ReduceAction(item.rule))
        p_r == rules[item.rule].precedence
        p_t == Precedence(d, eos, follow_terminal)
    IN IF type = "kShift"
       THEN IF p_r > p_t THEN [action |-> reduce, error |-> ""]
            ELSE IF p_r < p_t THEN [action |-> action, error |-> ""]
            ELSE IF Associativity(d, eos, follow_terminal) = "Left"
                 THEN [action |-> reduce, error |-> ""]
            ELSE IF Associativity(d, eos, follow_terminal) = "Right"
                 THEN [action |-> action, error |-> ""]
            ELSE [action |-> action, error |-> "ShiftReduce"]
       ELSE IF type = "kReduce"
            THEN [action |-> action, error |-> "ReduceReduce"]
            ELSE [action |-> reduce, error |-> ""]

(* ReduceEntry with the two associativity outcomes exchanged *)
ReduceEntryAssocSwapped(d, eos, rules, action, i, item, follow_terminal) ==
    LET type == IF HasEntry(action, i, follow_terminal)
                THEN action[i][follow_terminal].type ELSE "kError"
        reduce == SetEntry(action, i, follow_terminal, ReduceAction(item.rule))
        p_r == rules[item.rule].precedence
        p_t == Precedence(d, eos, follow_terminal)
    IN IF type = "kShift"
       THEN IF p_r < p_t THEN [action |-> reduce, error |-> ""]
            ELSE IF p_r > p_t THEN [action |-> action, error |-> ""]
            ELSE IF Associativity(d, eos, follow_terminal) = "Right"
                 THEN [action |-> reduce, error |-> ""]
            ELSE IF Associativity(d, eos, follow_terminal) = "Left"
                 THEN [action |-> action, error |-> ""]
            ELSE [action |-> action, error |-> "ShiftReduce"]
       ELSE IF type = "kReduce"
            THEN [action |-> action, error |-> "ReduceReduce"]
            ELSE [action |-> reduce, error |-> ""]

(* ReduceEntry overwriting an existing Reduce instead of reporting it *)
ReduceEntryOverwrite(d, eos, rules, action, i, item, follow_terminal) ==
    LET type == IF HasEntry(action, i, follow_terminal)
                THEN action[i][follow_terminal].type ELSE "kError"
        reduce == SetEntry(action, i, follow_terminal, ReduceAction(item.rule))
        p_r == rules[item.rule].precedence
        p_t == Precedence(d, eos, follow_terminal)
    IN IF type = "kShift"
       THEN IF p_r < p_t THEN [action |-> reduce, error |-> ""]
            ELSE IF p_r > p_t THEN [action |-> action, error |-> ""]
            ELSE IF Associativity(d, eos, follow_terminal) = "Left"
                 THEN [action |-> reduce, error |-> ""]
            ELSE IF Associativity(d, eos, follow_terminal) = "Right"
                 THEN [action |-> action, error |-> ""]
            ELSE [action |-> action, error |-> "ShiftReduce"]
       ELSE [action |-> reduce, error |-> ""]

(* the switch on action_[i][follow_terminal].type for one complete item and
   one terminal of its FOLLOW set: [action, error] *)
ReduceEntry(d, eos, rules, action, i, item, follow_terminal) ==
    LET type == IF HasEntry(action, i, follow_terminal)
                THEN action[i][follow_terminal].type ELSE "kError"
        reduce == SetEntry(action, i, follow_terminal, ReduceAction(item.rule))
        p_r == rules[item.rule].precedence
        p_t == Precedence(d, eos, follow_terminal)
    IN IF type = "kShift"
       THEN IF p_r < p_t THEN [action |-> reduce, error |-> ""]
            ELSE IF p_r > p_t THEN [action |-> action, error |-> ""]
            ELSE IF Associativity(d, eos, follow_terminal) = "Left"
                 THEN [action |-> reduce, error |-> ""]
            ELSE IF Associativity(d, eos, follow_terminal) = "Right"
                 THEN [action |-> action, error |-> ""]
            ELSE [action |-> action, error |-> "ShiftReduce"]
       ELSE IF type = "kReduce"
            THEN [action |-> action, error |-> "ReduceReduce"]
            ELSE [action |-> reduce, error |-> ""]

-----------------------------------------------------------------------------
(* Actions of SLRParser::Build / BuildParsingTables *)

(* states.emplace_back(&grammar_.root) *)
BuildBegin ==
    /\ pc = "constructed"
    /\ states' = <<StartItems(def, def.start)>>
    /\ build' = [i |-> 0, work |-> <<>>]
    /\ pc' = "build"
    /\ UNCHANGED <<gvars_but_pc, fsm, action_, goto_, error, pvars>>

(* one iteration of the outer for loop up to the end of "Process all
   transitions"; the reduce entries of the state follow one at a time *)
BuildTransitions ==
    /\ pc = "build"
    /\ build.work = <<>>
    /\ build.i < Len(states)
    /\ LET st == ProcessTransitions(def, rules_,
                     [states |-> states, fsm |-> fsm, action |-> action_, goto |-> goto_],
                     build.i,
                     GenerateTransitions(def, layout, states[build.i + 1]), 1)
           work == ReduceWork(def, layout, rules_, follow_, states[build.i + 1], 1)
       IN /\ states' = st.states
          /\ fsm' = st.fsm
          /\ action_' = st.action
          /\ goto_' = st.goto
          /\ build' = IF work = <<>> THEN [i |-> build.i + 1, work |-> <<>>]
                      ELSE [i |-> build.i, work |-> work]
    /\ UNCHANGED <<gvars, error, pvars>>

(* the switch for the next (item, follow_terminal) pair of state i *)
BuildReduce ==
    /\ pc = "build"
    /\ build.work # <<>>
    /\ LET w == Head(build.work)
           r == ReduceEntry(def, EOS, rules_, action_, build.i, w.item, w.follow_terminal)
       IN /\ action_' = r.action
          /\ error' = r.error
          /\ pc' = IF r.error # "" THEN "failed" ELSE "build"
          /\ build' = IF r.error # "" THEN build
                      ELSE IF Tail(build.work) = <<>>
                           THEN [i |-> build.i + 1, work |-> <<>>]
                           ELSE [i |-> build.i, work |-> Tail(build.work)]
    /\ UNCHANGED <<gvars_but_pc, states, fsm, goto_, pvars>>

(* action_[0][EOS] = Accept; return std::nullopt *)
BuildFinish ==
    /\ pc = "build"
    /\ build.work = <<>>
    /\ build.i >= Len(states)
    /\ action_' = SetEntry(action_, 0, EOSName, AcceptAction)
    /\ pc' = "built"
    /\ UNCHANGED <<gvars_but_pc, states, fsm, build, goto_, error, pvars>>

NextBuild ==
    \/ NextGrammar
    \/ BuildBegin
    \/ BuildTransitions
    \/ BuildReduce
    \/ BuildFinish

-----------------------------------------------------------------------------
(* Values of G::ValueType.  Every value has the same fields so that values of
   different kinds can be compared.  A number is the fraction num / den. *)
Value(kind, num, text, kids) ==
    [kind |-> kind, num |-> num, den |-> 1, text |-> text, kids |-> kids]

(* a value-initialised ValueType (std::vector<ValueType> args(n)) *)
ZeroValue == Value("zero", 0, <<>>, <<>>)

(* a double the model does not track: an infinity, a NaN, an irrational power
   or a magnitude beyond Huge *)
Untracked == Value("untracked", 0, <<>>, <<>>)

(* a double that was never initialised *)
Indeterminate == Value("indeterminate", 0, <<>>, <<>>)

(* ParseStackItem(state) leaves value default-initialised: for a class type the
   default-constructed value, for double whatever the storage held *)
DefaultInit(d) == IF d.value_type = "double" THEN Indeterminate ELSE ZeroValue

(* doubles are modelled by fractions whose numerator and denominator stay within Huge *)
Huge == 30000

Abs(n) == IF n < 0 THEN 0 - n ELSE n

RECURSIVE Gcd(_, _)
Gcd(a, b) == IF b = 0 THEN a ELSE Gcd(b, a % b)

Rational(n, m) ==
    IF m = 0 THEN Untracked
    ELSE LET g == Gcd(Abs(n), Abs(m))
             num == (IF m < 0 THEN 0 - n ELSE n) \div g
             den == Abs(m) \div g
         IN IF Abs(num) > Huge \/ den > Huge THEN Untracked
            ELSE [Value("num", num, <<>>, <<>>) EXCEPT !.den = den]

NumValue(n) == Rational(n, 1)

Mul(a, b) == IF a.kind # "num" \/ b.kind # "num" THEN Untracked
             ELSE Rational(a.num * b.num, a.den * b.den)

(* std::pow for a whole exponent 0 <= b *)
RECURSIVE Pow(_, _)
Pow(a, b) == IF b = 0 THEN NumValue(1) ELSE Mul(a, Pow(a, b - 1))

Digits == {"0", "1", "2", "3", "4", "5", "6", "7", "8", "9"}
DigitValue(c) == IndexOf(<<"0", "1", "2", "3", "4", "5", "6", "7", "8", "9">>, c) - 1
Letters == {"a", "b", "c", "f", "x"}

(* std::isspace *)
IsSpace(c) == c \in {" ", "\n", "\t"}

(* std::stod of a run of digits: the number's value, -1 beyond Huge *)
RECURSIVE Stod(_)
Stod(raw) ==
    IF raw = <<>> THEN 0
    ELSE LET hi == Stod(SubSeq(raw, 1, Len(raw) - 1))
             n == 10 * hi + DigitValue(raw[Len(raw)])
         IN IF hi < 0 \/ n > Huge THEN -1 ELSE n

(* std::stod of the text of a NUMBER token *)
NumberOf(raw) ==
    LET dots == {k \in 1..Len(raw) : raw[k] = "."}
        digits == SelectSeq(raw, LAMBDA c : c # ".")
        scale == IF dots = {} THEN NumValue(1)
                 ELSE Pow(NumValue(10), Len(raw) - (CHOOSE k \in dots : TRUE))
    IN IF Stod(digits) < 0 \/ scale.kind # "num" THEN Untracked
       ELSE Rational(Stod(digits), scale.num)

(* length of the longest prefix of input[from ..] whose characters are in set *)
RECURSIVE RunLength(_, _, _)
RunLength(input, from, set) ==
    IF from > Len(input) \/ input[from] \notin set THEN 0
    ELSE 1 + RunLength(input, from + 1, set)

(* DefineTerminal::Lex on input.substr(index): the length matched, -1 for
   std::nullopt.  index counts from 0. *)
Lex(d, t, input, index) ==
    IF t = EOSName
    THEN IF index >= Len(input) THEN 0 ELSE -1                  \* R"(\Z)"
    ELSE LET pat == d.pattern[t] IN
         IF index >= Len(input) THEN -1
         ELSE IF pat.kind = "char"
              THEN IF input[index + 1] = pat.c THEN 1 ELSE -1
         ELSE IF pat.kind = "number"                             \* R"(\d+(\.\d+)?)"
              THEN LET n == RunLength(input, index + 1, Digits)
                       m == IF index + n + 1 <= Len(input) /\ input[index + n + 1] = "."
                            THEN RunLength(input, index + n + 2, Digits) ELSE 0
                   IN IF n = 0 THEN -1 ELSE IF m > 0 THEN n + 1 + m ELSE n
         ELSE LET n == RunLength(input, index + 1, Letters)      \* "[a-zA-Z]+"
              IN IF n = 0 THEN -1 ELSE n

(* while(index < input.size() && std::isspace(input[index])) index++ *)
RECURSIVE SkipSpace(_, _)
SkipSpace(input, index) ==
    IF index < Len(input) /\ IsSpace(input[index + 1]) THEN SkipSpace(input, index + 1)
    ELSE index

(* MakeToken without the shift of the location by the tokenizer's index *)
MakeTokenRelative(t, input, index, len) ==
    [terminal |-> t, raw |-> SubSeq(input, index + 1, index + len),
     location |-> [begin |-> 0, end |-> len]]

MakeToken(t, input, index, len) ==
    [terminal |-> t, raw |-> SubSeq(input, index + 1, index + len),
     location |-> [begin |-> index, end |-> index + len]]

NoToken == [terminal |-> "", raw |-> <<>>, location |-> [begin |-> 0, end |-> 0]]

(* the first terminal of the sequence order that matches at index *)
FirstMatch(d, order, input, index) ==
    LET hits == {k \in 1..Len(order) : Lex(d, order[k], input, index) >= 0}
    IN IF hits = {} THEN NoToken
       ELSE LET k == CHOOSE k \in hits : \A k2 \in hits : k <= k2
            IN MakeToken(order[k], input, index, Lex(d, order[k], input, index))

(* Tokenizer::Peek(state, false) after the whitespace loop: the keys of
   action_.at(state) are tried in address order *)
PeekStrict(d, lay, action, state, input, index) ==
    FirstMatch(d, InAddressOrder(lay.terminals, DOMAIN action[state]), input, index)

(* Tokenizer::Peek(0, true) after the whitespace loop: all terminals of the grammar *)
PeekPermissive(d, lay, terminals, input, index) ==
    FirstMatch(d, InAddressOrder(lay.terminals, terminals), input, index)

(* Terminal::Reason: the reasoner's value, or none *)
Reason(d, token) ==
    LET r == IF token.terminal = EOSName THEN "none" ELSE d.reasoner[token.terminal] IN
    IF r = "none" THEN [has |-> FALSE, value |-> ZeroValue]
    ELSE IF r = "number" THEN [has |-> TRUE, value |-> NumberOf(token.raw)]
    ELSE [has |-> TRUE, value |-> Value("raw", token.location.begin, token.raw, <<>>)]

(* the arithmetic of the calculator's transductors *)
Arith(op, a, b) ==
    IF a.kind # "num" \/ b.kind # "num" THEN Untracked
    ELSE CASE op = "pow" -> IF b.den # 1 \/ Abs(b.num) > 32 THEN Untracked
                            ELSE IF b.num >= 0 THEN Pow(a, b.num)
                            ELSE LET r == Pow(a, 0 - b.num)
                                 IN IF r.kind # "num" THEN Untracked ELSE Rational(r.den, r.num)
           [] op = "mul" -> Mul(a, b)
           [] op = "div" -> Rational(a.num * b.den, a.den * b.num)
           [] op = "add" -> Rational(a.num * b.den + b.num * a.den, a.den * b.den)
           [] OTHER      -> Rational(a.num * b.den - b.num * a.den, a.den * b.den)

(* ProductionRule::Transduce: the transductor's value, or none *)
Transduce(d, id, args) ==
    LET tr == d.transductor[id[1]][id[2]] IN
    IF tr = "none" THEN [has |-> FALSE, value |-> ZeroValue]
    ELSE IF tr = "first" THEN [has |-> TRUE, value |-> args[1]]
    ELSE IF tr = "second" THEN [has |-> TRUE, value |-> args[2]]
    ELSE IF tr = "node" THEN [has |-> TRUE, value |-> Value("node", id[2], <<id[1]>>, args)]
    ELSE [has |-> TRUE, value |-> Arith(tr, args[1], args[3])]

(* results of Parse *)
NoResult == [kind |-> "none", value |-> ZeroValue, location |-> [begin |-> 0, end |-> 0]]
ValueResult(v) == [kind |-> "value", value |-> v, location |-> [begin |-> 0, end |-> 0]]
ErrorResult == [kind |-> "Error", value |-> ZeroValue, location |-> [begin |-> 0, end |-> 0]]
ParsingErrorResult(loc) == [kind |-> "ParsingError", value |-> ZeroValue, location |-> loc]
(* std::out_of_range leaving Parse *)
ExceptionResult == [kind |-> "exception", value |-> ZeroValue, location |-> [begin |-> 0, end |-> 0]]
(* behaviour is undefined: empty-stack access or a data race on the tables *)
UndefinedResult == [kind |-> "undefined", value |-> ZeroValue, location |-> [begin |-> 0, end |-> 0]]

(* a Parse call that has not started *)
Idle == [pc |-> "idle", input |-> <<>>, sink |-> FALSE, index |-> 0, parse_stack |-> <<>>,
         tokens |-> <<>>, trace |-> <<>>, result |-> NoResult]

StackItem(state, value) == [state |-> state, value |-> value]

Running(p) == p.pc \in {"run", "permissive"}

(* the history of a call keeps its first MaxTrace operations *)
MaxTrace == 32
Record(trace, e) == IF Len(trace) < MaxTrace THEN Append(trace, e) ELSE trace

(* ParseIteration with the reasoner run by every Peek instead of by the shift *)
ParseIterationEagerReason(d, lay, action, goto, rules, p) ==
    LET top == p.parse_stack[Len(p.parse_stack)]
        state == top.state
        index == SkipSpace(p.input, p.index)
        finish(res) == [p |-> [p EXCEPT !.pc = "done", !.index = index, !.result = res],
                        goto |-> goto]
    IN IF state \notin DOMAIN action THEN finish(ExceptionResult)     \* action_.at(state)
       ELSE LET lookahead == PeekStrict(d, lay, action, state, p.input, index) IN
            IF lookahead = NoToken
            THEN IF p.sink
                 THEN [p |-> [p EXCEPT !.pc = "permissive", !.index = index], goto |-> goto]
                 ELSE finish(ErrorResult)
            ELSE LET act == action[state][lookahead.terminal] IN
                 IF act.type = "kAccept" THEN finish(ValueResult(top.value))
                 ELSE IF act.type = "kShift"
                 THEN LET value == Reason(d, lookahead) IN
                      [p |-> [p EXCEPT
                                !.parse_stack = Append(@, StackItem(act.state,
                                    IF value.has THEN value.value ELSE DefaultInit(d))),
                                !.index = index + (lookahead.location.end - lookahead.location.begin),
                                !.tokens = IF p.sink THEN Append(@, lookahead) ELSE @,
                                !.trace = Record(@, [op |-> "shift", sym |-> lookahead.terminal,
                                                     k |-> 0, at |-> lookahead.location.begin,
                                                     callback |-> value.has])],
                       goto |-> goto]
                 ELSE IF act.type = "kReduce"
                 THEN LET n == Len(Sequence(d, act.rule))
                          size == Len(p.parse_stack)
                      IN IF size <= n THEN finish(UndefinedResult)      \* top() of an empty stack
                         ELSE LET args == [j \in 1..n |-> p.parse_stack[size - n + j].value]
                                  rest == SubSeq(p.parse_stack, 1, size - n)
                                  value == Transduce(d, act.rule, args)
                                  nt == rules[act.rule].non_terminal_
                                  below == rest[Len(rest)].state
                                  \* goto_[state][non_terminal] inserts 0 when absent
                                  goto2 == IF HasEntry(goto, below, nt) THEN goto
                                           ELSE SetEntry(goto, below, nt, 0)
                              IN [p |-> [p EXCEPT
                                           !.parse_stack = Append(rest, StackItem(goto2[below][nt],
                                               IF value.has THEN value.value ELSE DefaultInit(d))),
                                           !.index = index,
                                           !.trace = Record(@, [op |-> "peek", sym |-> lookahead.terminal,
                                                                k |-> 0, at |-> index,
                                                                callback |-> Reason(d, lookahead).has])
                                                     \o <<[op |-> "reduce", sym |-> act.rule[1],
                                                           k |-> act.rule[2], at |-> index,
                                                           callback |-> value.has]>>],
                                  goto |-> goto2]
                 ELSE finish(ParsingErrorResult(lookahead.location))

(* one iteration of the while(true) loop of Parse for the call record p:
   [p, goto] where goto is goto_ after the iteration *)
ParseIteration(d, lay, action, goto, rules, p) ==
    LET top == p.parse_stack[Len(p.parse_stack)]
        state == top.state
        index == SkipSpace(p.input, p.index)
        finish(res) == [p |-> [p EXCEPT !.pc = "done", !.index = index, !.result = res],
                        goto |-> goto]
    IN IF state \notin DOMAIN action THEN finish(ExceptionResult)     \* action_.at(state)
       ELSE LET lookahead == PeekStrict(d, lay, action, state, p.input, index) IN
            IF lookahead = NoToken
            THEN IF p.sink
                 THEN [p |-> [p EXCEPT !.pc = "permissive", !.index = index], goto |-> goto]
                 ELSE finish(ErrorResult)
            ELSE LET act == action[state][lookahead.terminal] IN
                 IF act.type = "kAccept" THEN finish(ValueResult(top.value))
                 ELSE IF act.type = "kShift"
                 THEN LET value == Reason(d, lookahead) IN
                      [p |-> [p EXCEPT
                                !.parse_stack = Append(@, StackItem(act.state,
                                    IF value.has THEN value.value ELSE DefaultInit(d))),
                                !.index = index + (lookahead.location.end - lookahead.location.begin),
                                !.tokens = IF p.sink THEN Append(@, lookahead) ELSE @,
                                !.trace = Record(@, [op |-> "shift", sym |-> lookahead.terminal,
                                                     k |-> 0, at |-> lookahead.location.begin,
                                                     callback |-> value.has])],
                       goto |-> goto]
                 ELSE IF act.type = "kReduce"
                 THEN LET n == Len(Sequence(d, act.rule))
                          size == Len(p.parse_stack)
                      IN IF size <= n THEN finish(UndefinedResult)      \* top() of an empty stack
                         ELSE LET args == [j \in 1..n |-> p.parse_stack[size - n + j].value]
                                  rest == SubSeq(p.parse_stack, 1, size - n)
                                  value == Transduce(d, act.rule, args)
                                  nt == rules[act.rule].non_terminal_
                                  below == rest[Len(rest)].state
                                  \* goto_[state][non_terminal] inserts 0 when absent
                                  goto2 == IF HasEntry(goto, below, nt) THEN goto
                                           ELSE SetEntry(goto, below, nt, 0)
                              IN [p |-> [p EXCEPT
                                           !.parse_stack = Append(rest, StackItem(goto2[below][nt],
                                               IF value.has THEN value.value ELSE DefaultInit(d))),
                                           !.index = index,
                                           !.trace = Record(@, [op |-> "reduce", sym |-> act.rule[1],
                                                                k |-> act.rule[2], at |-> index,
                                                                callback |-> value.has])],
                                  goto |-> goto2]
                 ELSE finish(ParsingErrorResult(lookahead.location))

(* PermissiveIteration giving up at the first character no terminal matches *)
PermissiveIterationNoSkip(d, lay, terminals, p) ==
    LET index == SkipSpace(p.input, p.index) IN
    IF index > Len(p.input)
    THEN [p EXCEPT !.pc = "done", !.index = index, !.result = ExceptionResult]
    ELSE LET lookahead == PeekPermissive(d, lay, terminals, p.input, index) IN
         IF lookahead = NoToken \/ lookahead.terminal = EOSName
         THEN [p EXCEPT !.pc = "done", !.index = index, !.result = ErrorResult]
         ELSE [p EXCEPT !.index = index + (lookahead.location.end - lookahead.location.begin),
                        !.tokens = Append(@, lookahead)]

(* one iteration of the "Permissively consume rest of tokens" loop *)
PermissiveIteration(d, lay, terminals, p) ==
    LET index == SkipSpace(p.input, p.index) IN
    IF index > Len(p.input)                                           \* input.substr(index)
    THEN [p EXCEPT !.pc = "done", !.index = index, !.result = ExceptionResult]
    ELSE LET lookahead == PeekPermissive(d, lay, terminals, p.input, index) IN
         IF lookahead = NoToken THEN [p EXCEPT !.index = index + 1]
         ELSE IF lookahead.terminal = EOSName
              THEN [p EXCEPT !.pc = "done", !.index = index, !.result = ErrorResult]
              ELSE [p EXCEPT !.index = index + (lookahead.location.end - lookahead.location.begin),
                             !.tokens = Append(@, lookahead)]

-----------------------------------------------------------------------------
(* Inputs of Parse *)
MaxInputLen == 3

RECURSIVE Strings(_, _)
Strings(alphabet, n) ==
    IF n = 0 THEN {<<>>}
    ELSE LET shorter == Strings(alphabet, n - 1)
         IN shorter \cup {Append(w, c) : w \in {w \in shorter : Len(w) = n - 1}, c \in alphabet}

MaxOps == 3

(* "2", "2 op 2", ... with up to n of the operators ops *)
RECURSIVE Chains(_, _)
Chains(ops, n) ==
    IF ops = {} THEN {}
    ELSE IF n = 0 THEN {<<"2">>}
    ELSE LET shorter == Chains(ops, n - 1)
         IN shorter \cup {w \o <<op, "2">> : w \in {w \in shorter : Len(w) = 2 * n - 1},
                                             op \in ops}

(* all strings over the grammar's test alphabet (the characters of its
   terminals, a blank and a character no terminal matches), the chains of its
   operators and its test inputs *)
Inputs(d) == Strings(d.alphabet, MaxInputLen) \cup Chains(d.operators, MaxOps) \cup d.tests

-----------------------------------------------------------------------------
(* Actions of SLRParser::Parse *)

(* return std::move(parse_stack.top().value): reading a double that was never
   initialised yields whatever the storage held, two values standing for all *)
Returned(result) ==
    IF result.kind = "value" /\ result.value = Indeterminate
    THEN {ValueResult(NumValue(0)), ValueResult(NumValue(1))}
    ELSE {result}

(* ParseBegin without parse_stack.emplace(0) *)
ParseBeginEmptyStack(th) ==
    /\ pc = "built"
    /\ parse[th].pc = "idle"
    /\ \E input \in Inputs(def) : \E sink \in BOOLEAN :
          parse' = [parse EXCEPT ![th] =
                       [Idle EXCEPT !.pc = "run", !.input = input, !.sink = sink]]
    /\ UNCHANGED <<gvars, bvars, race>>

(* the Tokenizer is constructed over input; parse_stack.emplace(0) *)
ParseBegin(th) ==
    /\ pc = "built"
    /\ parse[th].pc = "idle"
    /\ \E input \in Inputs(def) : \E sink \in BOOLEAN :
          parse' = [parse EXCEPT ![th] =
                       [Idle EXCEPT !.pc = "run", !.input = input, !.sink = sink,
                                    !.parse_stack = <<StackItem(0, DefaultInit(def))>>]]
    /\ UNCHANGED <<gvars, bvars, race>>

(* one iteration of the shift/reduce loop *)
ParseStep(th) ==
    /\ pc = "built"
    /\ parse[th].pc = "run"
    /\ LET r == ParseIteration(def, layout, action_, goto_, rules_, parse[th])
           others == \E o \in DOMAIN parse : o # th /\ Running(parse[o])
           racing == race \/ (r.goto # goto_ /\ others)
       IN /\ goto_' = r.goto
          /\ race' = racing
          /\ \E undefined \in IF racing /\ r.p.pc = "done" THEN BOOLEAN ELSE {FALSE} :
             \E result \in Returned(r.p.result) :
                parse' = [parse EXCEPT ![th] =
                             IF undefined THEN [r.p EXCEPT !.result = UndefinedResult]
                             ELSE [r.p EXCEPT !.result = result]]
    /\ UNCHANGED <<gvars, states, fsm, build, action_, error>>

(* one iteration of the permissive token-recovery loop *)
ParsePermissive(th) ==
    /\ pc = "built"
    /\ parse[th].pc = "permissive"
    /\ parse' = [parse EXCEPT ![th] = PermissiveIteration(def, layout, terminals_, parse[th])]
    /\ UNCHANGED <<gvars, bvars, race>>

NextParser ==
    \/ NextBuild
    \/ \E th \in DOMAIN parse : ParseBegin(th)
    \/ \E th \in DOMAIN parse : ParseStep(th)
    \/ \E th \in DOMAIN parse : ParsePermissive(th)

-----------------------------------------------------------------------------
(* Grammars as a user writes them.  A terminal named by one character matches
   that character; transductor "node" builds a tree from the child values. *)
MaxPermTerms == 4

Grammar0(name, nts, terms, start, rules) ==
    [ nts |-> nts,
      terms |-> terms,
      rules |-> rules,
      transductor |-> [n \in SeqToSet(nts) |-> [k \in 1..Len(rules[n]) |-> "node"]],
      start |-> start,
      assoc |-> NoneAssoc(terms),
      pattern |-> CharPattern(terms),
      reasoner |-> [t \in SeqToSet(terms) |-> "raw"],
      value_type |-> "class",
      tests |-> {},
      alphabet |-> SeqToSet(terms) \cup {" ", "?"},
      operators |-> {},
      name |-> name ]

RECURSIVE Orderings(_)
Orderings(S) ==
    IF S = {} THEN {<<>>}
    ELSE UNION {{<<x>> \o p : p \in Orderings(S \ {x})} : x \in S}

Reverse(s) == [k \in 1..Len(s) |-> s[Len(s) + 1 - k]]

(* the same grammar with its terminals defined in every order *)
AnyDeclOrder(g) == {[g EXCEPT !.terms = p] : p \in Orderings(SeqToSet(g.terms))}

(* the same grammar with every associativity for the terminals ops *)
AnyAssoc(g, ops) ==
    {[g EXCEPT !.assoc = [t \in SeqToSet(g.terms) |-> IF t \in ops THEN a[t] ELSE "None"]]
        : a \in [ops -> {"None", "Left", "Right"}]}

(* the address orders considered for the objects of a grammar *)
Layouts(d) ==
    LET ts == SeqToSet(d.terms) \cup {EOSName}
        torders == IF Cardinality(ts) <= MaxPermTerms
                   THEN Orderings(ts)
                   ELSE {Append(d.terms, EOSName), Reverse(Append(d.terms, EOSName)),
                         <<EOSName>> \o d.terms}
    IN {[terminals |-> p, nonterminals |-> q] : p \in torders, q \in {d.nts, Reverse(d.nts)}}

(* St -> E ; E -> E o E | n *)
Ambig ==
    Grammar0("Ambig", <<"St", "E">>, <<"n", "o">>, "St",
        [x \in {"St", "E"} |->
            IF x = "St" THEN << <<N("E")>> >>
            ELSE << <<N("E"), T("o"), N("E")>>, <<T("n")>> >>])

(* E -> E o E | n, E the start *)
AmbigStart ==
    Grammar0("AmbigStart", <<"E">>, <<"n", "o">>, "E",
        [x \in {"E"} |-> << <<N("E"), T("o"), N("E")>>, <<T("n")>> >>])

(* St -> E ; E -> E o E | E p E | n *)
TwoOp ==
    Grammar0("TwoOp", <<"St", "E">>, <<"n", "o", "p">>, "St",
        [x \in {"St", "E"} |->
            IF x = "St" THEN << <<N("E")>> >>
            ELSE << <<N("E"), T("o"), N("E")>>, <<N("E"), T("p"), N("E")>>, <<T("n")>> >>])

(* S -> A t | B t | x t ; A -> x ; B -> x *)
ReduceReduceShift ==
    Grammar0("ReduceReduceShift", <<"S", "A", "B">>, <<"x", "t">>, "S",
        [n \in {"S", "A", "B"} |->
            IF n = "S" THEN << <<N("A"), T("t")>>, <<N("B"), T("t")>>, <<T("x"), T("t")>> >>
            ELSE << <<T("x")>> >>])

(* S -> A t | B t ; A -> x ; B -> x *)
ReduceReduce ==
    Grammar0("ReduceReduce", <<"S", "A", "B">>, <<"x", "t">>, "S",
        [n \in {"S", "A", "B"} |->
            IF n = "S" THEN << <<N("A"), T("t")>>, <<N("B"), T("t")>> >>
            ELSE << <<T("x")>> >>])

(* S -> A t | B t | t t ; A -> t ; B -> t *)
ReduceReduceSame ==
    Grammar0("ReduceReduceSame", <<"S", "A", "B">>, <<"t">>, "S",
        [n \in {"S", "A", "B"} |->
            IF n = "S" THEN << <<N("A"), T("t")>>, <<N("B"), T("t")>>, <<T("t"), T("t")>> >>
            ELSE << <<T("t")>> >>])

(* E -> E + n | n, E the start *)
LeftRec ==
    Grammar0("LeftRec", <<"E">>, <<"n", "+">>, "E",
        [x \in {"E"} |-> << <<N("E"), T("+"), T("n")>>, <<T("n")>> >>])

(* S -> S S | a, S the start *)
Juxtapose ==
    Grammar0("Juxtapose", <<"S">>, <<"a">>, "S",
        [x \in {"S"} |-> << <<N("S"), N("S")>>, <<T("a")>> >>])

(* St -> S ; S -> S S | a *)
Adjacent ==
    Grammar0("Adjacent", <<"St", "S">>, <<"a">>, "St",
        [x \in {"St", "S"} |->
            IF x = "St" THEN << <<N("S")>> >>
            ELSE << <<N("S"), N("S")>>, <<T("a")>> >>])

(* S -> c A | c B | d B | d A ; A -> x y ; B -> x z *)
Crossed ==
    Grammar0("Crossed", <<"S", "A", "B">>, <<"c", "d", "x", "y", "z">>, "S",
        [n \in {"S", "A", "B"} |->
            IF n = "S" THEN << <<T("c"), N("A")>>, <<T("c"), N("B")>>,
                               <<T("d"), N("B")>>, <<T("d"), N("A")>> >>
            ELSE IF n = "A" THEN << <<T("x"), T("y")>> >>
            ELSE << <<T("x"), T("z")>> >>])

BuildGrammars ==
    UNION { UNION {AnyAssoc(g, {"o"}) : g \in AnyDeclOrder(Ambig)},
            UNION {AnyAssoc(g, {"o"}) : g \in AnyDeclOrder(AmbigStart)},
            UNION {AnyAssoc(g, {"o", "p"}) : g \in AnyDeclOrder(TwoOp)},
            AnyDeclOrder(ReduceReduceShift),
            AnyDeclOrder(ReduceReduce),
            {[ReduceReduceSame EXCEPT !.assoc["t"] = a] : a \in {"Left", "Right"}},
            AnyDeclOrder(LeftRec),
            {Juxtapose},
            AnyAssoc(Adjacent, {"a"}),
            {Crossed} }

InitBuild ==
    /\ \E d \in BuildGrammars : \E lay \in Layouts(d) : InitGrammarOf(d, lay)
    /\ parse = <<>>

SpecBuild == InitBuild /\ [][NextBuild]_vars

(* a parser constructed over the tables of the parser built before *)
ParserKeepingTables ==
    [states |-> <<>>, fsm |-> <<>>, build |-> [i |-> 0, work |-> <<>>],
     action_ |-> action_, goto_ |-> goto_, error |-> ""]

(* SLRParser(NonTerminal<G> &start) : grammar_(start) {}: empty tables *)
NewParser ==
    [states |-> <<>>, fsm |-> <<>>, build |-> [i |-> 0, work |-> <<>>],
     action_ |-> <<>>, goto_ |-> <<>>, error |-> ""]

(* the address orders after make_unique has placed a new EOS terminal *)
Relocations(lay) ==
    LET others == SelectSeq(lay.terminals, LAMBDA t : t # EOSName)
    IN {[lay EXCEPT !.terminals = SubSeq(others, 1, k) \o <<EOSName>>
                                    \o SubSeq(others, k + 1, Len(others))]
           : k \in 0..Len(others)}

(* SLRParser::Build(start) is called again on the same non-terminals: a new
   Grammar and a new SLRParser are constructed; the terminal counter and the
   fields the first Grammar wrote into the rules are as the first call left
   them *)
Rebuild ==
    /\ pc \in {"built", "failed"}
    /\ previous = NoParser
    /\ previous' = [pc |-> pc, action_ |-> action_, goto_ |-> goto_, error |-> error]
    /\ \E lay \in Relocations(layout) : layout' = lay
    /\ nonterminals_' = {}
    /\ terminals_' = {}
    /\ production_rules_' = <<>>
    /\ first_' = <<>>
    /\ follow_' = <<>>
    /\ has_change' = FALSE
    /\ states' = NewParser.states
    /\ fsm' = NewParser.fsm
    /\ build' = NewParser.build
    /\ action_' = NewParser.action_
    /\ goto_' = NewParser.goto_
    /\ error' = NewParser.error
    /\ pc' = "new"
    /\ UNCHANGED <<def, counter, EOS, rules_, pvars>>

NextRebuild ==
    \/ NextBuild
    \/ Rebuild

SpecRebuild == InitBuild /\ [][NextRebuild]_vars

(* S -> a *)
Unit ==
    Grammar0("Unit", <<"S">>, <<"a">>, "S", [x \in {"S"} |-> << <<T("a")>> >>])

(* S -> a | ( S S ) *)
Nest ==
    Grammar0("Nest", <<"S">>, <<"a", "(", ")">>, "S",
        [x \in {"S"} |-> << <<T("a")>>, <<T("("), N("S"), N("S"), T(")")>> >>])

(* St -> E ; E -> E + n | n *)
Wrapped ==
    [Grammar0("Wrapped", <<"St", "E">>, <<"n", "+">>, "St",
        [x \in {"St", "E"} |->
            IF x = "St" THEN << <<N("E")>> >>
            ELSE << <<N("E"), T("+"), T("n")>>, <<T("n")>> >>])
     EXCEPT !.tests = {<<"n", "+", "n", "+", "n">>}]

(* L -> i | L , i, L the start *)
List ==
    [Grammar0("List", <<"L">>, <<"i", ",">>, "L",
        [x \in {"L"} |-> << <<T("i")>>, <<N("L"), T(","), T("i")>> >>])
     EXCEPT !.tests = {<<"i", ",", " ", "i", ",", " ", "i">>}]

(* S -> a S | b *)
RightRec ==
    Grammar0("RightRec", <<"S">>, <<"a", "b">>, "S",
        [x \in {"S"} |-> << <<T("a"), N("S")>>, <<T("b")>> >>])

(* S -> a B, B default-constructed: a non-terminal without rules *)
Dangling ==
    Grammar0("Dangling", <<"S", "B">>, <<"a">>, "S",
        [x \in {"S", "B"} |-> IF x = "S" THEN << <<T("a"), N("B")>> >> ELSE <<>>])

(* S -> a B c ; B -> C ; C -> B *)
Cycle ==
    Grammar0("Cycle", <<"S", "B", "C">>, <<"a", "c">>, "S",
        [x \in {"S", "B", "C"} |->
            IF x = "S" THEN << <<T("a"), N("B"), T("c")>> >>
            ELSE IF x = "B" THEN << <<N("C")>> >>
            ELSE << <<N("B")>> >>])

(* S -> a | id, the pattern of id ([a-zA-Z]+) matching the text of a as well *)
Keyword ==
    [Grammar0("Keyword", <<"S">>, <<"a", "id">>, "S",
        [x \in {"S"} |-> << <<T("a")>>, <<T("id")>> >>])
     EXCEPT !.pattern["id"] = [kind |-> "letters", c |-> ""],
            !.alphabet = {"a", "b", " "}]

(* St -> E ; E -> E + n | n, the rule St -> E without a transductor *)
Alias ==
    [Wrapped EXCEPT !.name = "Alias", !.transductor["St"] = <<"none">>]

(* S -> A y | w A z ; A -> B | a ; B -> A, the unit rules passing their
   child's value on *)
Mutual ==
    [Grammar0("Mutual", <<"S", "A", "B">>, <<"a", "w", "y", "z">>, "S",
        [x \in {"S", "A", "B"} |->
            IF x = "S" THEN << <<N("A"), T("y")>>, <<T("w"), N("A"), T("z")>> >>
            ELSE IF x = "A" THEN << <<N("B")>>, <<T("a")>> >>
            ELSE << <<N("A")>> >>])
     EXCEPT !.transductor["A"] = <<"first", "first">>,
            !.transductor["B"] = <<"first">>,
            !.alphabet = {"a", "y", "z"},
            !.tests = {<<"w", "a", "z">>, <<"a", "y">>}]

(* S -> X a | c X id ; X -> b, where id is "[a-zA-Z]+" and so also matches
   the text of a *)
Contextual ==
    [Grammar0("Contextual", <<"S", "X">>, <<"a", "b", "c", "id">>, "S",
        [x \in {"S", "X"} |->
            IF x = "S" THEN << <<N("X"), T("a")>>, <<T("c"), N("X"), T("id")>> >>
            ELSE << <<T("b")>> >>])
     EXCEPT !.pattern["id"] = [kind |-> "letters", c |-> ""],
            !.alphabet = {"a", "b"},
            !.tests = {<<"c", " ", "b", " ", "x">>}]

(* the address orders considered when parsing *)
ParserLayouts(d) ==
    {[terminals |-> p, nonterminals |-> d.nts]
        : p \in {Append(d.terms, EOSName), Reverse(Append(d.terms, EOSName)),
                 <<EOSName>> \o d.terms}}

ParserGrammars ==
    { Unit, Nest, Wrapped, List, RightRec, Dangling, Cycle, Keyword, Alias, Contextual,
      [LeftRec EXCEPT !.tests = {<<"n", "+", "n", "+", "n">>}],
      [TwoOp EXCEPT !.assoc["o"] = "Left", !.assoc["p"] = "Right"] }

InitParser ==
    /\ \E d \in ParserGrammars : \E lay \in ParserLayouts(d) : InitGrammarOf(d, lay)
    /\ parse = [th \in {1} |-> Idle]

SpecParser == InitParser /\ [][NextParser]_vars

(* two Parse calls on one parser *)
ConcGrammars ==
    { [Unit EXCEPT !.alphabet = {"a"}, !.tests = {<<" ", "a">>, <<"?">>}],
      [Wrapped EXCEPT !.alphabet = {"n"}, !.tests = {<<"n", "+", "n">>}] }

InitConc ==
    /\ \E d \in ConcGrammars : InitGrammarOf(d, DeclOrder(d))
    /\ parse = [th \in {1, 2} |-> Idle]

SpecConc == InitConc /\ [][NextParser]_vars

-----------------------------------------------------------------------------
(* The calculator grammar of the tests *)

CalcTerms == <<"NUMBER", "^", "*", "/", "+", "-", "(", ")">>

CalcOps == {"^", "*", "/", "+", "-"}


CalcTests ==
    { <<"3", " ", "*", " ", "3", " ", "+", " ", "4", "^", "2", " ", "-", " ", "(", "9", " ", "/", " ", "3", ")">>,
      <<"1", "8", " ", "+", " ", "2", "^", "(", "1", " ", "+", " ", "1", ")", " ", "*", " ", "4">>,
      <<"3", " ", "+", " ", "5", " ", "-", " ", "2">>,
      <<"3", "[", "[", "[", "+", "]", "]", "]", "&", "0">>,
      <<"3", " ", "*", " ", "(", "4", " ", "+", " ", "2", ")">>,
      <<"2", " ", "+">>,
      <<"(", "2">>,
      <<"(", "(", "7", ")", ")">>,
      <<"2", " ", "2">>,
      <<>> }

Calculator ==
    [ nts |-> <<"expression", "statement">>,
      terms |-> CalcTerms,
      rules |-> [x \in {"expression", "statement"} |->
                   IF x = "statement" THEN << <<N("expression")>> >>
                   ELSE << <<T("NUMBER")>>,
                           <<T("("), N("expression"), T(")")>>,
                           <<N("expression"), T("^"), N("expression")>>,
                           <<N("expression"), T("*"), N("expression")>>,
                           <<N("expression"), T("/"), N("expression")>>,
                           <<N("expression"), T("+"), N("expression")>>,
                           <<N("expression"), T("-"), N("expression")>> >>],
      transductor |-> [x \in {"expression", "statement"} |->
                   IF x = "statement" THEN <<"first">>
                   ELSE <<"first", "second", "pow", "mul", "div", "add", "sub">>],
      start |-> "statement",
      assoc |-> [t \in SeqToSet(CalcTerms) |->
                   IF t = "^" THEN "Right" ELSE IF t \in CalcOps THEN "Left" ELSE "None"],
      pattern |-> [t \in SeqToSet(CalcTerms) |->
                   IF t = "NUMBER" THEN [kind |-> "number", c |-> ""]
                   ELSE [kind |-> "char", c |-> t]],
      reasoner |-> [t \in SeqToSet(CalcTerms) |-> IF t = "NUMBER" THEN "number" ELSE "none"],
      value_type |-> "double",
      tests |-> CalcTests,
      alphabet |-> {},
      operators |-> CalcOps,
      name |-> "Calculator" ]

(* the same grammar with the operators declared in the opposite order *)
CalculatorReversed ==
    [Calculator EXCEPT !.name = "CalculatorReversed",
                       !.terms = <<"NUMBER", "-", "+", "/", "*", "^", "(", ")">>]

InitCalc ==
    /\ \E d \in {Calculator, CalculatorReversed} : \E lay \in ParserLayouts(d) :
          InitGrammarOf(d, lay)
    /\ parse = [th \in {1} |-> Idle]

SpecCalc == InitCalc /\ [][NextParser]_vars

-----------------------------------------------------------------------------
(* FIRST / FOLLOW as read by NonTerminalHasFirst / NonTerminalHasFollow *)
FIRST(n) == Get(first_, n)
FOLLOW(n) == Get(follow_, n)

-----------------------------------------------------------------------------
(* Reference notions, computed from the grammar as written *)

RulesOf(d, n) == {d.rules[n][k] : k \in 1..Len(d.rules[n])}

(* non-terminals reachable from the set ns through rule sequences *)
RECURSIVE ReachableFrom(_, _)
ReachableFrom(d, ns) ==
    LET next == ns \cup {NameOf(r[i]) : <<r, i>> \in
                           {<<r, i>> \in UNION {RulesOf(d, n) \X (1..MaxGrammarSize) : n \in ns} :
                               i <= Len(r) /\ ~IsTerminal(r[i])}}
    IN IF next = ns THEN ns ELSE ReachableFrom(d, next)

(* non-terminals M with N =>* M gamma: reachability through first symbols *)
RECURSIVE LeftCorners(_, _)
LeftCorners(d, ns) ==
    LET next == ns \cup {NameOf(r[1]) : r \in {r \in UNION {RulesOf(d, n) : n \in ns} :
                                                  ~IsTerminal(r[1])}}
    IN IF next = ns THEN ns ELSE LeftCorners(d, next)

(* terminals t with N =>* t gamma *)
DerivesFirst(d, n) ==
    {NameOf(r[1]) : r \in {r \in UNION {RulesOf(d, m) : m \in LeftCorners(d, {n})} :
                              IsTerminal(r[1])}}

-----------------------------------------------------------------------------
(* C1: when grammar construction finishes, for every production N -> alpha X beta
   of the flat list with X a non-terminal: FOLLOW(N) is a subset of FOLLOW(X) if
   beta is empty, t is in FOLLOW(X) if the next symbol is the terminal t, and
   FIRST(M) is a subset of FOLLOW(X) if the next symbol is the non-terminal M. *)
C1_FollowFixedPoint ==
    pc = "constructed" =>
        \A k \in 1..Len(production_rules_) :
            LET n == production_rules_[k].nonterminal
                seq == production_rules_[k].rule.sequence_
            IN \A i \in 1..Len(seq) :
                  ~IsTerminal(seq[i]) =>
                     IF i = Len(seq) THEN FOLLOW(n) \subseteq FOLLOW(NameOf(seq[i]))
                     ELSE IF IsTerminal(seq[i + 1])
                          THEN NameOf(seq[i + 1]) \in FOLLOW(NameOf(seq[i]))
                          ELSE FIRST(NameOf(seq[i + 1])) \subseteq FOLLOW(NameOf(seq[i]))

(* C2: after grammar construction, for every reachable non-terminal N and every
   terminal t, t is in FIRST(N) iff some derivation of N begins with t. *)
C2_FirstIsDerivable ==
    pc = "constructed" =>
        \A n \in ReachableFrom(def, {def.start}) :
            \A t \in SeqToSet(def.terms) \cup {EOSName} :
                t \in FIRST(n) <=> t \in DerivesFirst(def, n)

(* a constructed grammar whose start and A are mutually left-recursive and
   have a non-empty FIRST *)
C2_Witness ==
    /\ pc = "constructed"
    /\ "A" \in LeftCorners(def, {"S"})
    /\ "S" \in LeftCorners(def, {"A"})
    /\ FIRST("S") # {}
    /\ FIRST("S") = FIRST("A")

-----------------------------------------------------------------------------
(* The (item, lookahead) pair BuildParsingTables is about to process *)
PendingPair == Head(build.work)
PendingRulePrecedence == rules_[PendingPair.item.rule].precedence
PendingTerminalPrecedence == Precedence(def, EOS, PendingPair.follow_terminal)

(* the pending pair meets an existing entry of the given type *)
PendingMeets(type) ==
    /\ pc = "build"
    /\ build.work # <<>>
    /\ HasEntry(action_, build.i, PendingPair.follow_terminal)
    /\ action_[build.i][PendingPair.follow_terminal].type = type

(* kernel states[i + 1] holds a complete item of a rule r, with t in FOLLOW of
   its non-terminal, for which P(precedence of r, precedence of t) holds *)
HasCompleteItem(i, t, P(_, _)) ==
    \E j \in 1..Len(states[i + 1]) :
        /\ Complete(def, states[i + 1][j])
        /\ t \in FOLLOW(rules_[states[i + 1][j].rule].non_terminal_)
        /\ P(rules_[states[i + 1][j].rule].precedence, Precedence(def, EOS, t))

(* C5: when a complete item of rule r meets an existing Shift entry for
   lookahead t and the precedences differ, the entry becomes Reduce(r) if
   precedence(r) < precedence(t) and stays Shift if precedence(r) >
   precedence(t); no error is reported in either case. *)
C5_PrecedenceDecides ==
    [][ (PendingMeets("kShift") /\ PendingRulePrecedence # PendingTerminalPrecedence) =>
            /\ error' = ""
            /\ pc' = "build"
            /\ action_'[build.i][PendingPair.follow_terminal] =
                  IF PendingRulePrecedence < PendingTerminalPrecedence
                  THEN ReduceAction(PendingPair.item.rule)
                  ELSE action_[build.i][PendingPair.follow_terminal] ]_vars

(* a built parser in which one shift/reduce conflict went to Reduce by lower
   rule precedence and another stayed Shift by higher rule precedence *)
C5_Witness ==
    /\ pc = "built"
    /\ \E i \in DOMAIN fsm : \E t \in SeqToSet(def.terms) :
          /\ HasEntry(fsm, i, T(t))
          /\ action_[i][t].type = "kReduce"
          /\ rules_[action_[i][t].rule].precedence < Precedence(def, EOS, t)
    /\ \E i \in DOMAIN fsm : \E t \in SeqToSet(def.terms) :
          /\ HasEntry(fsm, i, T(t))
          /\ action_[i][t].type = "kShift"
          /\ HasCompleteItem(i, t, LAMBDA pr, pt : pr > pt /\ pr # SizeMax)

(* some non-terminal has a rule E -> E op E whose operator has no associativity *)
HasAmbiguousRule(d) ==
    \E id \in RuleIds(d) :
        /\ Len(Sequence(d, id)) = 3
        /\ Sequence(d, id)[1] = N(id[1])
        /\ Sequence(d, id)[3] = N(id[1])
        /\ IsTerminal(Sequence(d, id)[2])
        /\ d.assoc[NameOf(Sequence(d, id)[2])] = "None"
        /\ id[1] \in ReachableFrom(d, {d.start})

(* C6: a shift/reduce conflict with equal rule and lookahead precedence is
   decided by the lookahead's associativity: Left makes the entry Reduce, Right
   leaves it Shift, None makes Build return a shift/reduce error; a grammar with
   a rule E -> E op E whose op has no associativity never builds. *)
C6_AssociativityDecides ==
    [][ /\ (PendingMeets("kShift") /\ PendingRulePrecedence = PendingTerminalPrecedence) =>
              LET assoc == Associativity(def, EOS, PendingPair.follow_terminal) IN
              /\ assoc = "Left" =>
                    /\ error' = "" /\ pc' = "build"
                    /\ action_'[build.i][PendingPair.follow_terminal]
                          = ReduceAction(PendingPair.item.rule)
              /\ assoc = "Right" =>
                    /\ error' = "" /\ pc' = "build"
                    /\ action_'[build.i][PendingPair.follow_terminal]
                          = action_[build.i][PendingPair.follow_terminal]
              /\ assoc = "None" => (error' = "ShiftReduce" /\ pc' = "failed")
        /\ (pc' = "built" => ~HasAmbiguousRule(def)) ]_vars

(* a build that resolved one equal-precedence conflict to Reduce by Left
   associativity and then failed on an operator without associativity *)
C6_Witness ==
    /\ pc = "failed"
    /\ error = "ShiftReduce"
    /\ HasAmbiguousRule(def)
    /\ PendingRulePrecedence = PendingTerminalPrecedence
    /\ \E i \in DOMAIN fsm : \E t \in SeqToSet(def.terms) :
          /\ HasEntry(fsm, i, T(t))
          /\ action_[i][t].type = "kReduce"
          /\ def.assoc[t] = "Left"
          /\ rules_[action_[i][t].rule].precedence = Precedence(def, EOS, t)

(* state i holds two distinct complete items whose FOLLOW sets share t *)
TwoCompleteItems(i, t) ==
    \E j1, j2 \in 1..Len(states[i + 1]) :
        /\ ~ItemEq(def, rules_, states[i + 1][j1], states[i + 1][j2])
        /\ Complete(def, states[i + 1][j1])
        /\ Complete(def, states[i + 1][j2])
        /\ t \in FOLLOW(rules_[states[i + 1][j1].rule].non_terminal_)
        /\ t \in FOLLOW(rules_[states[i + 1][j2].rule].non_terminal_)

(* C7 as stated: Build returns a reduce/reduce error whenever some state
   contains two distinct complete items whose FOLLOW sets share a terminal t,
   whether or not that state also has a shift on t. *)
C7_ReduceReduceAlwaysFatal ==
    pc \in {"built", "failed"} =>
        ((\E i \in 0..(Len(states) - 1) : \E t \in terminals_ : TwoCompleteItems(i, t))
            => error = "ReduceReduce")

(* C7 amended: a complete item that meets an existing Reduce entry makes Build
   return a reduce/reduce error at once, and Build never succeeds when some
   state holds two distinct complete items whose FOLLOW sets share a terminal
   on which that state has no shift. *)
C7_ReduceReduceFatalWithoutShift ==
    [][ /\ PendingMeets("kReduce") => (error' = "ReduceReduce" /\ pc' = "failed")
        /\ pc' = "built" =>
              \A i \in 0..(Len(states') - 1) : \A t \in terminals_ :
                  (TwoCompleteItems(i, t))' => HasEntry(fsm', i, T(t)) ]_vars

(* a build that failed with reduce/reduce in a state holding two complete items *)
C7_Witness ==
    /\ pc = "failed"
    /\ error = "ReduceReduce"
    /\ TwoCompleteItems(build.i, PendingPair.follow_terminal)
    /\ action_[build.i][PendingPair.follow_terminal].type = "kReduce"

-----------------------------------------------------------------------------
(* Reference notions for Parse: the token sequence of an input, the sentences
   of a grammar, and the grouping of an operator expression *)

(* the tokens of input from index on: blanks separate tokens, each token is
   the match of the one terminal that matches there, "?" where none does *)
RECURSIVE RefTokens(_, _, _)
RefTokens(d, input, index) ==
    LET i == SkipSpace(input, index) IN
    IF i >= Len(input) THEN <<>>
    ELSE LET hits == {t \in SeqToSet(d.terms) : Lex(d, t, input, i) > 0} IN
         IF hits = {} THEN <<[terminal |-> "?", raw |-> <<input[i + 1]>>]>> \o RefTokens(d, input, i + 1)
         ELSE LET t == CHOOSE t \in hits : TRUE
                  n == Lex(d, t, input, i)
              IN <<[terminal |-> t, raw |-> SubSeq(input, i + 1, i + n)]>> \o RefTokens(d, input, i + n)

TerminalsOf(tokens) == [k \in 1..Len(tokens) |-> tokens[k].terminal]

(* w is derived from the symbol sequence syms / from the symbol X; no rule of
   the grammars considered is empty, so every symbol derives at least one terminal *)
RECURSIVE DerivesSeq(_, _, _), DerivesSym(_, _, _)
DerivesSeq(d, syms, w) ==
    IF syms = <<>> THEN w = <<>>
    ELSE IF Len(w) < Len(syms) THEN FALSE
    ELSE \E k \in 1..(Len(w) - Len(syms) + 1) :
            /\ DerivesSym(d, Head(syms), SubSeq(w, 1, k))
            /\ DerivesSeq(d, Tail(syms), SubSeq(w, k + 1, Len(w)))

DerivesSym(d, X, w) ==
    IF IsTerminal(X) THEN w = <<NameOf(X)>>
    ELSE \E k \in 1..Len(d.rules[NameOf(X)]) : DerivesSeq(d, d.rules[NameOf(X)][k], w)

IsSentence(d, input) == DerivesSym(d, N(d.start), TerminalsOf(RefTokens(d, input, 0)))

(* the rules Parse reduced by, in order *)
Reductions(p) ==
    LET reds == SelectSeq(p.trace, LAMBDA e : e.op = "reduce")
    IN [k \in 1..Len(reds) |-> <<reds[k].sym, reds[k].k>>]

(* the rule of d with the given right-hand side *)
RuleWith(d, seq) == CHOOSE id \in RuleIds(d) : Sequence(d, id) = seq

(* the binary operators of the expression non-terminal e *)
Operators(d, e) ==
    {t \in SeqToSet(d.terms) : \E id \in RuleIds(d) : Sequence(d, id) = <<N(e), T(t), N(e)>>}

(* number of "(" minus number of ")" before position k *)
Depth(tokens, k) ==
    Cardinality({j \in 1..(k - 1) : tokens[j].terminal = "("})
      - Cardinality({j \in 1..(k - 1) : tokens[j].terminal = ")"})

NotAnExpression == [ok |-> FALSE, reductions |-> <<>>, value |-> ZeroValue]

(* the reference evaluator: an expression splits at its loosest-binding
   operator outside parentheses (the one declared last); among several
   occurrences of that operator at the last one when it is Left-associative,
   at the first one when it is Right-associative.  The result holds the rules
   in the order of the grouping (operands before their operator) and the value. *)
RECURSIVE RefTree(_, _, _)
RefTree(d, e, tokens) ==
    IF tokens = <<>> THEN NotAnExpression
    ELSE IF Len(tokens) = 1
    THEN IF tokens[1].terminal # "NUMBER" THEN NotAnExpression
         ELSE [ok |-> TRUE, reductions |-> <<RuleWith(d, <<T("NUMBER")>>)>>,
               value |-> NumberOf(tokens[1].raw)]
    ELSE LET tops == {k \in 1..Len(tokens) :
                        tokens[k].terminal \in Operators(d, e) /\ Depth(tokens, k) = 0}
         IN IF tops = {}
            THEN IF tokens[1].terminal # "(" \/ tokens[Len(tokens)].terminal # ")"
                 THEN NotAnExpression
                 ELSE LET inner == RefTree(d, e, SubSeq(tokens, 2, Len(tokens) - 1))
                      IN IF ~inner.ok THEN NotAnExpression
                         ELSE [ok |-> TRUE,
                               reductions |-> Append(inner.reductions,
                                                 RuleWith(d, <<T("("), N(e), T(")")>>)),
                               value |-> inner.value]
            ELSE LET loosest == CHOOSE k \in tops : \A j \in tops :
                                   DeclPrecedence(d, tokens[j].terminal)
                                     <= DeclPrecedence(d, tokens[k].terminal)
                     op == tokens[loosest].terminal
                     same == {k \in tops : tokens[k].terminal = op}
                     split == IF d.assoc[op] = "Right"
                              THEN CHOOSE k \in same : \A j \in same : k <= j
                              ELSE CHOOSE k \in same : \A j \in same : j <= k
                     left == RefTree(d, e, SubSeq(tokens, 1, split - 1))
                     right == RefTree(d, e, SubSeq(tokens, split + 1, Len(tokens)))
                     rule == RuleWith(d, <<N(e), T(op), N(e)>>)
                 IN IF ~left.ok \/ ~right.ok \/ d.assoc[op] = "None" THEN NotAnExpression
                    ELSE [ok |-> TRUE,
                          reductions |-> Append(left.reductions \o right.reductions, rule),
                          value |-> Transduce(d, rule, <<left.value, ZeroValue, right.value>>).value]

RefExpression(d, input) == RefTree(d, "expression", RefTokens(d, input, 0))

(* the start non-terminal is directly left-recursive *)
StartIsLeftRecursive(d) ==
    \E k \in 1..Len(d.rules[d.start]) : d.rules[d.start][k][1] = N(d.start)

(* the reductions of a left-associative parse of x op x op x *)
LeftAssociative(d) ==
    LET rec == CHOOSE id \in RuleIds(d) : id[1] = d.start /\ Sequence(d, id)[1] = N(d.start)
        base == CHOOSE id \in RuleIds(d) : id[1] = d.start /\ Sequence(d, id)[1] # N(d.start)
    IN <<base, rec, rec>>

(* the state Parse does not own: the tables and the grammar *)
shared == <<action_, goto_, first_, follow_, terminals_, nonterminals_, production_rules_,
            rules_, EOS>>

MaxFuel == 12

(* the result of the call p run to its end on the tables given, alone *)
RECURSIVE RunAlone(_, _)
RunAlone(p, fuel) ==
    IF p.pc = "done" \/ fuel = 0 THEN p.result
    ELSE IF p.pc = "permissive"
    THEN RunAlone(PermissiveIteration(def, layout, terminals_, p), fuel - 1)
    ELSE RunAlone(ParseIteration(def, layout, action_, goto_, rules_, p).p, fuel - 1)

(* the call th as ParseBegin started it *)
Started(th) ==
    [Idle EXCEPT !.pc = "run", !.input = parse[th].input, !.sink = parse[th].sink,
                 !.parse_stack = <<StackItem(0, DefaultInit(def))>>]

-----------------------------------------------------------------------------
(* C3: on a grammar Build accepted, Parse returns a value for an input exactly
   when the input's token sequence is a sentence of the grammar (which is what
   the explicitly augmented grammar S' -> S $ accepts), the empty input included *)
C3_ImplicitAugmentationEquivalent ==
    \A th \in DOMAIN parse :
        (pc = "built" /\ parse[th].pc = "done")
            => (parse[th].result.kind = "value" <=> IsSentence(def, parse[th].input))

-----------------------------------------------------------------------------
(* C4: when the start non-terminal is directly left-recursive, Build reports no
   conflict and Parse accepts x op x op x with the reductions of the
   left-associative grouping *)
C4_LeftRecursiveStartParses ==
    StartIsLeftRecursive(def)
        => /\ pc # "failed"
           /\ \A th \in DOMAIN parse :
                 (parse[th].pc = "done" /\ parse[th].input \in def.tests)
                     => /\ parse[th].result.kind = "value"
                        /\ Reductions(parse[th]) = LeftAssociative(def)

-----------------------------------------------------------------------------
(* C8: Build succeeds on the calculator grammar, and for every input that is an
   operator expression Parse returns a value, reduces in the order of the
   reference evaluator's grouping (an earlier-declared operator binds tighter,
   one operator groups by its associativity) and returns the value of that
   grouping *)
C8_CalculatorGrouping ==
    def.name \in {"Calculator", "CalculatorReversed"}
        => /\ pc # "failed"
           /\ \A th \in DOMAIN parse :
                 parse[th].pc = "done"
                     => LET ref == RefExpression(def, parse[th].input)
                        IN ref.ok
                             => /\ parse[th].result.kind = "value"
                                /\ Reductions(parse[th])
                                      = Append(ref.reductions, RuleWith(def, <<N("expression")>>))
                                /\ parse[th].result.value = ref.value

(* 3 * 3 + 4^2 - (9 / 3) has been parsed and yielded 22, 18 + 2^(1 + 1) * 4
   has yielded 34, or a chain of MaxOps operators has been parsed,
   with the declaration order of the tests *)
C8_Witness ==
    /\ def.name = "Calculator"
    /\ \E th \in DOMAIN parse :
          /\ parse[th].pc = "done"
          /\ parse[th].result.kind = "value"
          /\ \/ /\ parse[th].input = <<"3", " ", "*", " ", "3", " ", "+", " ", "4", "^", "2", " ", "-", " ", "(", "9", " ", "/", " ", "3", ")">>
                /\ parse[th].result.value = NumValue(22)
             \/ /\ parse[th].input = <<"1", "8", " ", "+", " ", "2", "^", "(", "1", " ", "+", " ", "1", ")", " ", "*", " ", "4">>
                /\ parse[th].result.value = NumValue(34)
             \/ /\ Len(parse[th].input) = 2 * MaxOps + 1
                /\ parse[th].input[2] = "-"
                /\ parse[th].input[4] = "^"

-----------------------------------------------------------------------------
(* C9: every step of a Parse call leaves ACTION, GOTO and the grammar (FIRST,
   FOLLOW, symbol sets, rules) as Build produced them *)
C9_ParseLeavesParserUnchanged ==
    [][(pc = "built" /\ parse' # parse) => UNCHANGED shared]_vars

-----------------------------------------------------------------------------
(* C10: while two Parse calls run on one parser no step of either writes the
   tables or the grammar, no access races, and each call returns the result
   it returns when run alone *)
C10_ConcurrentParsesIndependent ==
    [][(pc = "built" /\ Cardinality(DOMAIN parse) = 2 /\ parse' # parse)
          => /\ UNCHANGED shared
             /\ ~race'
             /\ \A th \in DOMAIN parse :
                   parse'[th].pc = "done"
                       => parse'[th].result = RunAlone(Started(th)', MaxFuel)]_vars

-----------------------------------------------------------------------------
(* the lexemes of input from index on, each with its location: blanks are
   skipped, a lexeme is the match of the one terminal that matches at the
   position, a character no terminal matches is the lexeme "?" *)
RECURSIVE RefLexemes(_, _, _)
RefLexemes(d, input, index) ==
    LET i == SkipSpace(input, index) IN
    IF i >= Len(input) THEN <<>>
    ELSE LET hits == {t \in SeqToSet(d.terms) : Lex(d, t, input, i) > 0}
             t == IF hits = {} THEN "?" ELSE CHOOSE t \in hits : TRUE
             n == IF hits = {} THEN 1 ELSE Lex(d, t, input, i)
         IN <<[terminal |-> t, raw |-> SubSeq(input, i + 1, i + n),
               location |-> [begin |-> i, end |-> i + n]]>> \o RefLexemes(d, input, i + n)

(* the shifts Parse performed, in order *)
Shifts(p) == SelectSeq(p.trace, LAMBDA e : e.op = "shift")

(* C11: after a successful Parse with a token sink the sink holds exactly the
   lexemes of the input in input order, one token per shift, none for the end
   of stream, each located at the offset of its first character after the
   skipped blanks and ending at that offset plus its length *)
C11_SinkHoldsShiftedTokens ==
    \A th \in DOMAIN parse :
        (pc = "built" /\ parse[th].pc = "done" /\ parse[th].sink
            /\ parse[th].result.kind = "value")
          => /\ parse[th].tokens = RefLexemes(def, parse[th].input, 0)
             /\ Len(parse[th].tokens) = Len(Shifts(parse[th]))
             /\ \A k \in 1..Len(parse[th].tokens) :
                   /\ parse[th].tokens[k].terminal = Shifts(parse[th])[k].sym
                   /\ parse[th].tokens[k].terminal # EOSName
                   /\ parse[th].tokens[k].location.begin = Shifts(parse[th])[k].at
                   /\ parse[th].tokens[k].location.end
                        = parse[th].tokens[k].location.begin + Len(parse[th].tokens[k].raw)

(* "3 + 5 - 2" has been parsed with a sink: five tokens, the first a NUMBER at
   0, the fourth the "-" at 6 *)
C11_Witness ==
    \E th \in DOMAIN parse :
        /\ pc = "built" /\ parse[th].pc = "done" /\ parse[th].sink
        /\ parse[th].result.kind = "value"
        /\ parse[th].input = <<"3", " ", "+", " ", "5", " ", "-", " ", "2">>
        /\ Len(parse[th].tokens) = 5
        /\ parse[th].tokens[1].terminal = "NUMBER"
        /\ parse[th].tokens[1].location.begin = 0
        /\ parse[th].tokens[4].terminal = "-"
        /\ parse[th].tokens[4].location.begin = 6

-----------------------------------------------------------------------------
(* the lexemes of input that some terminal of the grammar matches *)
MatchedLexemes(d, input) ==
    SelectSeq(RefLexemes(d, input, 0), LAMBDA tok : tok.terminal # "?")

(* C12: when the strict tokenizer finds no terminal of the current state
   and a sink was given (the call turns to the permissive loop), Parse returns
   an error and the sink holds the tokens shifted before the failure followed
   by every lexeme of the rest of the input that a terminal of the grammar
   matches, in input order; characters no terminal matches are skipped *)
C12_PermissiveRecovery ==
    [][\A th \in DOMAIN parse :
          (parse[th].pc = "permissive" /\ parse'[th].pc = "done")
             => /\ parse'[th].result = ErrorResult
                /\ parse'[th].tokens = MatchedLexemes(def, parse[th].input)
                /\ Len(Shifts(parse[th])) <= Len(parse'[th].tokens)
                /\ \A k \in 1..Len(Shifts(parse[th])) :
                      /\ parse'[th].tokens[k].terminal = Shifts(parse[th])[k].sym
                      /\ parse'[th].tokens[k].location.begin = Shifts(parse[th])[k].at]_vars

(* "3[[[+]]]&0" has failed with a sink that holds NUMBER at 0, + at 4 and
   NUMBER at 9 *)
C12_Witness ==
    \E th \in DOMAIN parse :
        /\ parse[th].pc = "done" /\ parse[th].sink
        /\ parse[th].result = ErrorResult
        /\ parse[th].input = <<"3", "[", "[", "[", "+", "]", "]", "]", "&", "0">>
        /\ [k \in 1..Len(parse[th].tokens) |->
               <<parse[th].tokens[k].terminal, parse[th].tokens[k].location.begin>>]
             = << <<"NUMBER", 0>>, <<"+", 4>>, <<"NUMBER", 9>> >>

-----------------------------------------------------------------------------
(* the offset of the input Parse stopped at: the first lexeme it did not
   shift, or the end of the input *)
OffendingOffset(d, p) ==
    LET lexemes == RefLexemes(d, p.input, 0)
        n == Len(Shifts(p))
    IN IF n < Len(lexemes) THEN lexemes[n + 1].location.begin ELSE Len(p.input)

(* C13: every error Parse returns is a parsing error that carries the location
   of the offending input: the offset of the character no terminal matches, or
   the location of the token that has no ACTION entry in the current state *)
C13_ErrorsCarryLocation ==
    \A th \in DOMAIN parse :
        (parse[th].pc = "done" /\ parse[th].result.kind # "value")
          => /\ parse[th].result.kind = "ParsingError"
             /\ parse[th].result.location.begin = OffendingOffset(def, parse[th])

-----------------------------------------------------------------------------
(* C14: no exception leaves Build or Parse: on every parser that Build
   produced, each state on top of the stack of a running Parse has a row in
   the ACTION table, so the tokenizer's action_.at(state) finds it, and no
   call ends with an exception *)
C14_NoExceptionEscapes ==
    \A th \in DOMAIN parse :
        /\ parse[th].result.kind # "exception"
        /\ (pc = "built" /\ parse[th].pc = "run")
             => parse[th].parse_stack[Len(parse[th].parse_stack)].state \in DOMAIN action_

-----------------------------------------------------------------------------
(* the calls of reasoners and of transductors a Parse call made, in order *)
ReasonerCalls(p) == SelectSeq(p.trace, LAMBDA e : e.callback /\ e.op # "reduce")
TransductorCalls(p) == SelectSeq(p.trace, LAMBDA e : e.callback /\ e.op = "reduce")

(* an iteration of Parse pushed one entry: a shift *)
IsShiftStep(p, q) ==
    q.pc = "run" /\ Len(q.parse_stack) = Len(p.parse_stack) + 1

(* an iteration of Parse replaced the top entries by one: a reduction *)
IsReduceStep(p, q) ==
    q.pc = "run" /\ Len(q.parse_stack) <= Len(p.parse_stack)

(* C15: the reasoner runs exactly once for each shifted token, in input
   order, and the transductor exactly once for each reduction, in the order
   of the reductions; peeking again at a token after a reduction, failing and
   the permissive loop run no callback, so no callback runs for a token that
   is never shifted *)
C15_CallbacksOncePerShiftAndReduce ==
    /\ [](\A th \in DOMAIN parse :
            LET sh == Shifts(parse[th])
                lexemes == RefLexemes(def, parse[th].input, 0)
                calls == ReasonerCalls(parse[th])
                due == SelectSeq(sh, LAMBDA e : def.reasoner[e.sym] # "none")
            IN /\ Len(sh) <= Len(lexemes)
               /\ \A k \in 1..Len(sh) : /\ sh[k].sym = lexemes[k].terminal
                                        /\ sh[k].at = lexemes[k].location.begin
               /\ calls = due)
    /\ [][\A th \in DOMAIN parse :
            LET p == parse[th]
                q == parse'[th]
                last == q.trace[Len(q.trace)]
            IN /\ (p.pc = "run" /\ IsShiftStep(p, q))
                    => /\ q.trace = Append(p.trace, last)
                       /\ last.op = "shift"
                       /\ last.callback = (def.reasoner[last.sym] # "none")
               /\ (p.pc = "run" /\ IsReduceStep(p, q))
                    => /\ q.trace = Append(p.trace, last)
                       /\ last.op = "reduce"
                       /\ last.callback = (def.transductor[last.sym][last.k] # "none")
                       /\ q.index = SkipSpace(p.input, p.index)
               /\ (p.pc = "permissive" \/ (p.pc = "run" /\ q.pc # "run"))
                    => q.trace = p.trace]_vars

(* "3 + 5 - 2" has been parsed: the reasoner ran for the three numbers at 0,
   4 and 8 and the transductor for the six reductions *)
C15_Witness ==
    \E th \in DOMAIN parse :
        /\ parse[th].pc = "done" /\ parse[th].result.kind = "value"
        /\ parse[th].input = <<"3", " ", "+", " ", "5", " ", "-", " ", "2">>
        /\ [k \in 1..Len(ReasonerCalls(parse[th])) |-> ReasonerCalls(parse[th])[k].at]
             = <<0, 4, 8>>
        /\ [k \in 1..Len(TransductorCalls(parse[th])) |-> TransductorCalls(parse[th])[k].k]
             = <<1, 1, 6, 1, 7, 1>>

-----------------------------------------------------------------------------
(* C16: a second SLRParser::Build from the same start non-terminal ends as
   the first did, and when it succeeds its ACTION and GOTO tables are those
   of the first build under a bijection of the state ids (the identity: the
   states are numbered alike), the new end-of-stream terminal standing for
   the old one *)
C16_RebuildIsomorphic ==
    (previous # NoParser /\ pc \in {"built", "failed"})
       => /\ pc = previous.pc
          /\ error = previous.error
          /\ pc = "built" => /\ action_ = previous.action_
                             /\ goto_ = previous.goto_

(* a grammar whose conflicts are resolved by precedence has been built a
   second time, with the new EOS at another address and a larger precedence *)
C16_Witness ==
    /\ previous.pc = "built" /\ pc = "built"
    /\ def.name = "TwoOp"
    /\ EOS.precedence = Len(def.terms) + 1
    /\ layout.terminals[1] = EOSName
    /\ \E s \in DOMAIN action_ : \E t \in DOMAIN action_[s] : action_[s][t].type = "kReduce"

-----------------------------------------------------------------------------
(* the positions of the flat production list that hold rule k of n *)
FlatCopies(n, k) ==
    {i \in DOMAIN production_rules_ : production_rules_[i].rule.id = <<n, k>>}

(* C17: once the Grammar constructor has registered the symbols, the
   non-terminal set is exactly the set of non-terminals reachable from the
   start through rule sequences, each rule of a registered non-terminal is
   once in the flat production list (and no other rule is), and the
   back-reference of each such rule, in the non-terminal and in the flat
   copy, is its owning non-terminal *)
C17_RegisteredExactlyReachable ==
    pc # "new"
      => /\ nonterminals_ = ReachableFrom(def, {def.start})
         /\ \A n \in nonterminals_ : \A k \in 1..Len(def.rules[n]) :
               /\ Cardinality(FlatCopies(n, k)) = 1
               /\ \A i \in FlatCopies(n, k) :
                     /\ production_rules_[i].nonterminal = n
                     /\ production_rules_[i].rule.non_terminal_ = n
                     /\ production_rules_[i].rule.sequence_ = def.rules[n][k]
               /\ rules_[<<n, k>>].non_terminal_ = n
         /\ \A i \in DOMAIN production_rules_ :
               production_rules_[i].nonterminal \in nonterminals_

(* a grammar whose two non-terminals refer to each other, the second only
   from the end of a rule, has been constructed *)
C17_Witness ==
    /\ pc = "constructed"
    /\ nonterminals_ = {"S", "A"}
    /\ \E k \in 1..Len(def.rules["S"]) :
          /\ Len(def.rules["S"][k]) = 2
          /\ def.rules["S"][k][1] = T("a")
          /\ def.rules["S"][k][2] = N("A")
    /\ \A k \in 1..Len(def.rules["S"]) : def.rules["S"][k][1] # N("A")
    /\ \E k \in 1..Len(def.rules["A"]) : N("S") \in SeqToSet(def.rules["A"][k])
    /\ Len(production_rules_) = Len(def.rules["S"]) + Len(def.rules["A"])

-----------------------------------------------------------------------------
(* C18: when Parse has taken Accept its stack holds the initial entry and
   exactly one more entry, the value returned is the value of that entry, and
   that entry was pushed by the reduction of a rule of the start non-terminal
   after every lexeme of the input had been shifted *)
C18_AcceptOnStartOverWholeInput ==
    \A th \in DOMAIN parse :
        (parse[th].pc = "done" /\ parse[th].result.kind = "value")
          => LET p == parse[th] IN
             /\ Len(p.parse_stack) = 2
             /\ p.parse_stack[1] = StackItem(0, DefaultInit(def))
             /\ p.result.value = p.parse_stack[2].value
             /\ p.trace # <<>>
             /\ p.trace[Len(p.trace)].op = "reduce"
             /\ p.trace[Len(p.trace)].sym = def.start
             /\ Len(Shifts(p)) = Len(RefLexemes(def, p.input, 0))

-----------------------------------------------------------------------------
(* C19: when Parse reduces by a rule of A and the pops expose state s, the
   GOTO table already holds an entry for (s, A) before the reduction, the
   state pushed is that entry, and for the start non-terminal exposed at
   state 0 the entry is 0 *)
C19_GotoCompiledBeforeReduce ==
    [][\A th \in DOMAIN parse :
          LET p == parse[th]
              q == parse'[th]
          IN (pc = "built" /\ p.pc = "run" /\ IsReduceStep(p, q))
               => LET A == q.trace[Len(q.trace)].sym
                      s == q.parse_stack[Len(q.parse_stack) - 1].state
                  IN /\ HasEntry(goto_, s, A)
                     /\ q.parse_stack[Len(q.parse_stack)].state = goto_[s][A]
                     /\ (A = def.start /\ s = 0) => goto_[s][A] = 0]_vars

-----------------------------------------------------------------------------
(* the rule of the pending pair holds no terminal: its precedence is undefined *)
PendingRuleHasNoTerminal ==
    \A i \in 1..Len(Sequence(def, PendingPair.item.rule)) :
        ~IsTerminal(Sequence(def, PendingPair.item.rule)[i])

(* C20: when a complete item of a rule without a terminal meets an existing
   Shift entry, the rule's precedence is not compared with the lookahead's:
   the lookahead's associativity decides, Left making the entry Reduce, Right
   leaving it Shift and None making Build return a shift/reduce error *)
C20_UndefinedPrecedenceFallsToAssociativity ==
    [][ (PendingMeets("kShift") /\ PendingRuleHasNoTerminal) =>
            LET assoc == Associativity(def, EOS, PendingPair.follow_terminal) IN
            /\ assoc = "Left" =>
                  /\ error' = "" /\ pc' = "build"
                  /\ action_'[build.i][PendingPair.follow_terminal]
                        = ReduceAction(PendingPair.item.rule)
            /\ assoc = "Right" =>
                  /\ error' = "" /\ pc' = "build"
                  /\ action_'[build.i][PendingPair.follow_terminal]
                        = action_[build.i][PendingPair.follow_terminal]
            /\ assoc = "None" => (error' = "ShiftReduce" /\ pc' = "failed") ]_vars

-----------------------------------------------------------------------------
(* the terminals of a rule sequence, in order *)
TerminalsIn(seq) == SelectSeq(seq, IsTerminal)

(* C21: once the Grammar constructor has registered the symbols, every rule
   stored in a registered non-terminal (the rule objects LR items point to)
   whose sequence holds a terminal has the precedence of the last terminal of
   the sequence, a terminal's precedence being its place in the order of
   declaration *)
C21_RulePrecedenceIsLastTerminal ==
    pc # "new"
      => \A n \in nonterminals_ : \A k \in 1..Len(def.rules[n]) :
            LET ts == TerminalsIn(def.rules[n][k]) IN
            ts # <<>>
              => rules_[<<n, k>>].precedence = IndexOf(def.terms, NameOf(ts[Len(ts)])) - 1

(* the calculator grammar is constructed: the rule ( expression ) carries the
   precedence of the closing parenthesis, the last terminal declared *)
C21_Witness ==
    /\ pc = "constructed"
    /\ def.name = "Calculator"
    /\ def.rules["expression"][2] = <<T("("), N("expression"), T(")")>>
    /\ rules_[<<"expression", 2>>].precedence = 7
    /\ rules_[<<"expression", 6>>].precedence = 4

-----------------------------------------------------------------------------
(* the terminals with an ACTION entry in state s whose pattern matches the
   input at index *)
LegalMatches(s, input, index) ==
    {t \in DOMAIN action_[s] : Lex(def, t, input, index) >= 0}

(* C22: in parser state s at an input position the strict tokenizer returns
   a token of terminal t only if ACTION[s, t] is set and the pattern of t
   matches there, it returns a token whenever some such terminal exists, and
   among several it returns the one of the smallest precedence value, the one
   declared first *)
C22_StrictPeekPrefersEarliestDeclared ==
    \A th \in DOMAIN parse :
        LET p == parse[th]
            s == p.parse_stack[Len(p.parse_stack)].state
            index == SkipSpace(p.input, p.index)
        IN (pc = "built" /\ p.pc = "run" /\ s \in DOMAIN action_)
             => LET token == PeekStrict(def, layout, action_, s, p.input, index)
                    legal == LegalMatches(s, p.input, index)
                IN /\ token = NoToken <=> legal = {}
                   /\ token # NoToken
                        => /\ token.terminal \in legal
                           /\ token.location.begin = index
                           /\ \A t \in legal : Precedence(def, EOS, token.terminal)
                                                 <= Precedence(def, EOS, t)

-----------------------------------------------------------------------------
(* the kernel of a state as a set of items *)
KernelSet(state) == {state[j] : j \in 1..Len(state)}

(* C23: no two states of the state list BuildParsingTables produces have the
   same set of kernel items, in whatever order the items were generated *)
C23_EachKernelOnce ==
    pc \in {"build", "built"}
      => \A i, j \in 1..Len(states) :
            i # j => KernelSet(states[i]) # KernelSet(states[j])

-----------------------------------------------------------------------------
(* closure(S): the smallest set of items that holds the items of S and, with
   an item whose dot stands before a non-terminal, the dot-0 items of all
   rules of that non-terminal *)
RECURSIVE RefClosure(_, _)
RefClosure(d, items) ==
    LET expanded == {NameOf(NextSymbol(d, it)) :
                        it \in {it \in items : /\ ~Complete(d, it)
                                                /\ ~IsTerminal(NextSymbol(d, it))}}
        next == items \cup {Item(<<n, k>>, 0) : <<n, k>> \in
                               {id \in RuleIds(d) : id[1] \in expanded}}
    IN IF next = items THEN items ELSE RefClosure(d, next)

(* GOTO(S, X) as a set of items *)
RefGoto(d, state, X) ==
    {Advance(it) : it \in {it \in RefClosure(d, KernelSet(state)) :
                              ~Complete(d, it) /\ NextSymbol(d, it) = X}}

(* C24: for every state S of the state list and every symbol X the kernel
   GenerateTransitions produces for X holds each item of GOTO(S, X) exactly
   once and nothing else, and it produces a kernel for X exactly when
   GOTO(S, X) is not empty; the start state is no exception *)
C24_TransitionKernelIsGoto ==
    pc \in {"build", "built"}
      => \A i \in 1..Len(states) :
            LET transitions == GenerateTransitions(def, layout, states[i])
                symbols == SeqToSet(SymbolOrder(layout))
            IN /\ \A k \in 1..Len(transitions) :
                     /\ transitions[k].symbol \in symbols
                     /\ KernelSet(transitions[k].kernel_items)
                           = RefGoto(def, states[i], transitions[k].symbol)
                     /\ Len(transitions[k].kernel_items)
                           = Cardinality(RefGoto(def, states[i], transitions[k].symbol))
               /\ \A X \in symbols :
                     RefGoto(def, states[i], X) # {}
                        => \E k \in 1..Len(transitions) : transitions[k].symbol = X

-----------------------------------------------------------------------------
(* C25: a reduction by a rule of one symbol that has no transductor pushes
   the value of the entry it popped, unchanged, as the value of the
   non-terminal *)
C25_AliasPassesValueThrough ==
    [][\A th \in DOMAIN parse :
          LET p == parse[th]
              q == parse'[th]
              last == q.trace[Len(q.trace)]
          IN (pc = "built" /\ p.pc = "run" /\ IsReduceStep(p, q)
                /\ Len(def.rules[last.sym][last.k]) = 1
                /\ def.transductor[last.sym][last.k] = "none")
               => q.parse_stack[Len(q.parse_stack)].value
                     = p.parse_stack[Len(p.parse_stack)].value]_vars

-----------------------------------------------------------------------------
(* Grammar::Grammar and SLRParser::Build run to completion once called: a
   loop iteration that stays possible is eventually executed.  The grammars
   are the small shapes, under the address layouts of ParserLayouts. *)
(* S -> a | a *)
Twice ==
    Grammar0("Twice", <<"S">>, <<"a">>, "S", [x \in {"S"} |-> << <<T("a")>>, <<T("a")>> >>])

FairGrammars == {Unit, Dangling, Keyword, Wrapped, Twice, Cycle}

InitBuildFair ==
    /\ \E d \in FairGrammars : \E lay \in ParserLayouts(d) : InitGrammarOf(d, lay)
    /\ parse = <<>>

SpecBuildFair == InitBuildFair /\ [][NextBuild]_vars /\ WF_vars(NextBuild)

(* C26: construction terminates: the FIRST loop, the FOLLOW loop and the
   enumeration of LR(0) states each finish after finitely many passes, so
   that Build eventually returns a parser ("built") or an error ("failed") *)
C26_BuildTerminates == <>(pc \in {"built", "failed"})

(* Build has returned a parser for the grammar whose FIRST set needs a second
   pass, after enumerating all its states *)
C26_Witness == pc = "built" /\ def.name = "Wrapped" /\ build.i = Len(states) /\ Len(states) > 3

-----------------------------------------------------------------------------
(* A call of Parse runs to completion: an iteration of its loops that stays
   possible is eventually executed.  Whether Parse is called at all is up to
   the caller. *)
FairParserGrammars == {Unit, Mutual}

InitParserFair ==
    /\ \E d \in FairParserGrammars : \E lay \in ParserLayouts(d) : InitGrammarOf(d, lay)
    /\ parse = [th \in {1} |-> Idle]

SpecParserFair ==
    /\ InitParserFair
    /\ [][NextParser]_vars
    /\ WF_vars(ParseStep(1))
    /\ WF_vars(ParsePermissive(1))

(* C27: on a parser whose Build succeeded every call of Parse terminates:
   a call that is running eventually returns *)
C27_ParseTerminates == Running(parse[1]) ~> (parse[1].pc = "done")

-----------------------------------------------------------------------------
(* the token Peek yields for a running call from its top-of-stack state, the
   empty token when it yields none *)
Lookahead(action, p) ==
    LET state == p.parse_stack[Len(p.parse_stack)].state
    IN IF state \in DOMAIN action
       THEN PeekStrict(def, layout, action, state, p.input, SkipSpace(p.input, p.index))
       ELSE NoToken

(* C28: after a Reduce decided on a lookahead token of terminal t, the token
   obtained on the next iteration, against the new top-of-stack state, is
   again of terminal t with the same location *)
C28_SameTokenAfterReduce ==
    [][\A th \in DOMAIN parse :
          LET p == parse[th]
              q == parse'[th]
              decided == Lookahead(action_, p)
              next == Lookahead(action_', q)
          IN (p.pc = "run" /\ IsReduceStep(p, q) /\ next # NoToken)
                => /\ next.terminal = decided.terminal
                   /\ next.location = decided.location]_vars

-----------------------------------------------------------------------------
(* the rule the next iteration of a running call reduces by, NoRule when the
   next iteration does not reduce *)
PendingReduce(p) ==
    LET state == p.parse_stack[Len(p.parse_stack)].state
        lookahead == Lookahead(action_, p)
    IN IF lookahead = NoToken THEN NoRule
       ELSE IF action_[state][lookahead.terminal].type = "kReduce"
            THEN action_[state][lookahead.terminal].rule
            ELSE NoRule

(* C29: in every state of a call of Parse the stack is non-empty with the
   state-0 entry at its bottom, and a Reduce by a rule of length k is taken
   only when at least k entries lie above that entry, so that popping never
   empties the stack *)
C29_StackKeepsBottom ==
    \A th \in DOMAIN parse :
        LET p == parse[th] IN
        p.pc # "idle" =>
            /\ p.parse_stack # <<>>
            /\ p.parse_stack[1].state = 0
            /\ p.result # UndefinedResult
            /\ (p.pc = "run" /\ PendingReduce(p) # NoRule)
                  => Len(Sequence(def, PendingReduce(p))) <= Len(p.parse_stack) - 1

(* E + n is about to be reduced with exactly its three entries above the
   bottom entry *)
C29_Witness ==
    /\ def.name = "Wrapped"
    /\ parse[1].pc = "run"
    /\ PendingReduce(parse[1]) = <<"E", 1>>
    /\ Len(Sequence(def, <<"E", 1>>)) = 3
    /\ Len(parse[1].parse_stack) = 4

-----------------------------------------------------------------------------
(* Calls of Parse one after the other on one parser: a call begins when the
   calls before it have returned *)
MaxCalls == 3

RepeatGrammars ==
    { [Calculator EXCEPT !.operators = {},
                         !.tests = {<<>>, <<"2", " ", "+">>, <<"3", " ", "+", " ", "5">>}],
      [Unit EXCEPT !.alphabet = {"a"}, !.tests = {<<"?">>}],
      [Wrapped EXCEPT !.alphabet = {}, !.tests = {<<"n">>, <<"n", "+", "n">>, <<"n", "+">>}] }

InitRepeat ==
    /\ \E d \in RepeatGrammars : InitGrammarOf(d, DeclOrder(d))
    /\ parse = [th \in 1..MaxCalls |-> Idle]

ParseAgain(th) ==
    /\ \A o \in DOMAIN parse : o < th => parse[o].pc = "done"
    /\ ParseBegin(th)

NextRepeat ==
    \/ NextBuild
    \/ \E th \in DOMAIN parse : ParseAgain(th)
    \/ \E th \in DOMAIN parse : ParseStep(th)
    \/ \E th \in DOMAIN parse : ParsePermissive(th)

SpecRepeat == InitRepeat /\ [][NextRepeat]_vars

(* C30: parsing is repeatable on one parser: two calls of Parse with the
   same input, whatever was parsed before and between them, return the same
   result, the first call being on the freshly built parser *)
C30_ParseRepeatable ==
    \A i, j \in DOMAIN parse :
        (/\ i < j
         /\ parse[i].pc = "done"
         /\ parse[j].pc = "done"
         /\ parse[i].input = parse[j].input)
            => parse[i].result = parse[j].result

====
